---- MODULE Spec2Model ----
(***************************************************************************)
(* quick-tab: a tab-management overlay.  The model follows the service-    *)
(* backed application: ChromeService (live tab registry, per-URL metadata, *)
(* bookmarks), the useTabManager hook (merge of live tabs with metadata,   *)
(* ghost entries for closed bookmarks), the App component (filtering,      *)
(* sorting, visible list, selection cursor, command mode) and the TabList  *)
(* component (row rendering).  The earlier local-state App.tsx is modelled *)
(* by the operators whose names end in V1.                                 *)
(*                                                                         *)
(* Strings are sequences of UTF-16 code units, so that toLowerCase, trim,  *)
(* includes and the rolling hash are computed as the code computes them.   *)
(***************************************************************************)
EXTENDS Integers, Sequences, FiniteSets, TLC

\* ------------------------------------------------------------------------
\* Bounds of the model
\* ------------------------------------------------------------------------
\* number of tabs the live registry holds at start-up
NumTabs == 2
\* longest tag list the tag editors and MARK add to
MaxTags == 2

\* ------------------------------------------------------------------------
\* Strings
\* ------------------------------------------------------------------------
\* ""
EmptyStr == <<>>
\* "/"
Slash == <<47>>
\* "q", "Q", " "
TagLq == <<113>>
TagUq == <<81>>
Blank == <<32>>

\* String.prototype.toLowerCase on ASCII code units
toLowerCase(s) == [i \in 1..Len(s) |-> IF s[i] \in 65..90 THEN s[i] + 32 ELSE s[i]]

\* String.prototype.includes
includes(s, sub) ==
  \E i \in 0..(Len(s) - Len(sub)) : SubSeq(s, i + 1, i + Len(sub)) = sub

\* String.prototype.startsWith
startsWith(s, pre) == Len(pre) <= Len(s) /\ SubSeq(s, 1, Len(pre)) = pre

IsSpace(c) == c \in {9, 10, 11, 12, 13, 32}

RECURSIVE trimStart(_)
trimStart(s) == IF s # <<>> /\ IsSpace(Head(s)) THEN trimStart(Tail(s)) ELSE s

RECURSIVE trimEnd(_)
trimEnd(s) ==
  IF s # <<>> /\ IsSpace(s[Len(s)]) THEN trimEnd(SubSeq(s, 1, Len(s) - 1)) ELSE s

\* String.prototype.trim
trim(s) == trimEnd(trimStart(s))

\* Array.prototype.filter for a predicate given as the set of kept elements
RECURSIVE SelectIn(_, _)
SelectIn(s, keep) ==
  IF s = <<>> THEN <<>>
  ELSE IF Head(s) \in keep THEN <<Head(s)>> \o SelectIn(Tail(s), keep)
       ELSE SelectIn(Tail(s), keep)

\* Array.prototype.findIndex (0-based, -1 when nothing matches)
findIndex(s, keep) ==
  IF \E i \in 1..Len(s) : s[i] \in keep
  THEN (CHOOSE i \in 1..Len(s) : s[i] \in keep /\ \A j \in 1..(i - 1) : s[j] \notin keep) - 1
  ELSE -1

\* Array.prototype.find / array[i]: <<>> for undefined, <<element>> otherwise
find(s, keep) == LET i == findIndex(s, keep) IN IF i = -1 THEN <<>> ELSE <<s[i + 1]>>
at(s, i) == IF i >= 0 /\ i < Len(s) THEN <<s[i + 1]>> ELSE <<>>

Min(a, b) == IF a < b THEN a ELSE b
Max(a, b) == IF a > b THEN a ELSE b

\* Array.prototype.splice(start, 0, item) on a copy
spliceInsert(s, start, item) ==
  LET idx == IF start < 0 THEN Max(Len(s) + start, 0) ELSE Min(start, Len(s))
  IN  SubSeq(s, 1, idx) \o <<item>> \o SubSeq(s, idx + 1, Len(s))

\* Array.prototype.splice(start, 1) on a copy, for 0 <= start < length
spliceRemove(s, start) == SubSeq(s, 1, start) \o SubSeq(s, start + 2, Len(s))

Range(s) == {s[i] : i \in 1..Len(s)}

\* optional values: <<>> is null, <<v>> is v
None == <<>>
Some(v) == <<v>>

\* ------------------------------------------------------------------------
\* The ghost id: -1 * (32-bit rolling hash of the URL)
\* ------------------------------------------------------------------------
\* one reduce step, a = ((a << 5) - a) + charCode; a & a, on the unsigned
\* 32-bit value kept as <<high 16 bits, low 16 bits>>
hashStep(h, c) ==
  LET lo == h[2] * 31 + c
      hi == h[1] * 31 + (lo \div 65536)
  IN  <<hi % 65536, lo % 65536>>

\* a & a leaves a 32-bit value
isWord32(h) == h[1] \in 0..65535 /\ h[2] \in 0..65535

\* reduce, left to right from h; the sequence is split in two and the value after
\* the first part is computed before the second part is entered
RECURSIVE hashFrom(_, _)
hashFrom(h, s) ==
  IF s = <<>> THEN h
  ELSE IF Len(s) = 1 THEN hashStep(h, s[1])
  ELSE LET m == Len(s) \div 2
           mid == hashFrom(h, SubSeq(s, 1, m))
       IN  IF isWord32(mid) THEN hashFrom(mid, SubSeq(s, m + 1, Len(s))) ELSE mid

\* the signed 32-bit reading (a & a yields an int32)
toInt32(h) == IF h[1] >= 32768 THEN (h[1] - 65536) * 65536 + h[2] ELSE h[1] * 65536 + h[2]

urlHash(url) == toInt32(hashFrom(<<0, 0>>, url))

\* ------------------------------------------------------------------------
\* Data: the tabs the registry starts with, and what storage may hold
\* ------------------------------------------------------------------------
\* the URLs of the first four tabs of INITIAL_TABS
\* "https://ai.google.dev/gemini-api/docs"
UrlGemini ==
  <<104, 116, 116, 112, 115, 58, 47, 47, 97, 105, 46, 103, 111, 111, 103, 108, 101, 46,
    100, 101, 118, 47, 103, 101, 109, 105, 110, 105, 45, 97, 112, 105, 47, 100, 111, 99,
    115>>
\* "https://react.dev/"
UrlReact == <<104, 116, 116, 112, 115, 58, 47, 47, 114, 101, 97, 99, 116, 46, 100, 101, 118, 47>>
\* "https://tailwindcss.com/docs/utility-first"
UrlTailwind ==
  <<104, 116, 116, 112, 115, 58, 47, 47, 116, 97, 105, 108, 119, 105, 110, 100, 99, 115,
    115, 46, 99, 111, 109, 47, 100, 111, 99, 115, 47, 117, 116, 105, 108, 105, 116, 121,
    45, 102, 105, 114, 115, 116>>
\* "https://company.atlassian.net/browse/PROJ-1234"
UrlJira ==
  <<104, 116, 116, 112, 115, 58, 47, 47, 99, 111, 109, 112, 97, 110, 121, 46, 97, 116,
    108, 97, 115, 115, 105, 97, 110, 46, 110, 101, 116, 47, 98, 114, 111, 119, 115, 101,
    47, 80, 82, 79, 74, 45, 49, 50, 51, 52>>

\* URLs found only in stored bookmarks, of tabs that are not open now:
\* "https://x.io/aojtastd", "https://x.io/Aa", "https://x.io/BB"
UrlPrefix == <<104, 116, 116, 112, 115, 58, 47, 47, 120, 46, 105, 111, 47>>
UrlStored == UrlPrefix \o <<97, 111, 106, 116, 97, 115, 116, 100>>
UrlAa == UrlPrefix \o <<65, 97>>
UrlBB == UrlPrefix \o <<66, 66>>

\* "Ab", "ba", "C", "d"
TitleAb == <<65, 98>>
TitleBa == <<98, 97>>
TitleC == <<67>>
TitleD == <<100>>

\* group ids "default" and "work"
GroupDefault == <<100, 101, 102, 97, 117, 108, 116>>
GroupWork == <<119, 111, 114, 107>>

AllInitialTabs ==
  << [id |-> 1, title |-> TitleAb, url |-> UrlGemini, isActive |-> TRUE, isPinned |-> FALSE,
      tags |-> <<>>],
     [id |-> 2, title |-> TitleBa, url |-> UrlReact, isActive |-> FALSE, isPinned |-> FALSE,
      tags |-> <<TagLq>>],
     [id |-> 3, title |-> TitleC, url |-> UrlTailwind, isActive |-> FALSE, isPinned |-> FALSE,
      tags |-> <<TagLq, TagUq>>],
     [id |-> 4, title |-> TitleD, url |-> UrlJira, isActive |-> FALSE, isPinned |-> FALSE,
      tags |-> <<>>] >>

\* the first n of them
InitialTabs(n) == SubSeq(AllInitialTabs, 1, Min(n, Len(AllInitialTabs)))

INITIAL_TABS == InitialTabs(NumTabs)

INITIAL_BOOKMARK_GROUPS ==
  << [id |-> GroupDefault, title |-> <<82>>], [id |-> GroupWork, title |-> <<87>>] >>

\* ------------------------------------------------------------------------
\* State
\* ------------------------------------------------------------------------
VARIABLES
  \* ChromeService
  liveTabs,            \* sequence of [id, title, url, active, pinned]
  metadata,            \* url -> [tags, note, savedTitle]
  bookmarks,           \* sequence of [url, groupId, pinned]
  bookmarkGroups,      \* sequence of [id, title]
  \* App (React state)
  isOpen, query, inputMode, activeCommand, viewMode, isPinnedExpanded,
  targetTabIdToSelect, detailTabId, selectedTabIndex, selectedCommandIndex,
  \* App (refs)
  prevFilteredTabsRef, prevViewModeRef,
  \* the window's timers scheduled by setTimeout and not yet run, and whether
  \* the App component is mounted
  timers, mounted,
  \* React bookkeeping: the hook dependencies that changed since the last commit
  stale,
  \* the last handler that ran, with its arguments
  ev

serviceVars == <<liveTabs, metadata, bookmarks, bookmarkGroups>>
appVars == <<isOpen, query, inputMode, activeCommand, viewMode, isPinnedExpanded,
             targetTabIdToSelect, detailTabId, selectedTabIndex, selectedCommandIndex>>
refVars == <<prevFilteredTabsRef, prevViewModeRef>>
timerVars == <<timers, mounted>>
vars == <<serviceVars, appVars, refVars, timerVars, stale, ev>>

\* ------------------------------------------------------------------------
\* ChromeService
\* ------------------------------------------------------------------------
\* getMetadata: this.metadata[url] || { tags: [], note: '' }
DefaultMetadata == [tags |-> <<>>, note |-> EmptyStr, savedTitle |-> EmptyStr]
getMetadata(meta, url) == IF url \in DOMAIN meta THEN meta[url] ELSE DefaultMetadata

closeTab(tabs, tabId) == SelectIn(tabs, {t \in Range(tabs) : t.id # tabId})

activateTab(tabs, tabId) ==
  [i \in 1..Len(tabs) |-> [tabs[i] EXCEPT !.active = (tabs[i].id = tabId)]]

togglePinTabOn(tabs, tabId) ==
  [i \in 1..Len(tabs) |->
     IF tabs[i].id = tabId THEN [tabs[i] EXCEPT !.pinned = TRUE] ELSE tabs[i]]

togglePinTab(tabs, tabId) ==
  [i \in 1..Len(tabs) |->
     IF tabs[i].id = tabId THEN [tabs[i] EXCEPT !.pinned = ~tabs[i].pinned] ELSE tabs[i]]

\* the backward loop of reorderPinnedTabs: index of the last pinned tab, or -1
lastPinnedIndex(tabs) ==
  IF \E i \in 1..Len(tabs) : tabs[i].pinned
  THEN (CHOOSE i \in 1..Len(tabs) :
          tabs[i].pinned /\ \A j \in (i + 1)..Len(tabs) : ~tabs[j].pinned) - 1
  ELSE -1

\* a reorder that looks toId up before fromId is taken out
reorderPinnedTabsStaleIndex(tabs, fromId, toId) ==
  LET fromIndex == findIndex(tabs, {t \in Range(tabs) : t.id = fromId})
  IN  IF fromIndex = -1 THEN tabs
      ELSE LET item == tabs[fromIndex + 1]
               newTabs == spliceRemove(tabs, fromIndex)
           IN  IF toId = None
               THEN spliceInsert(newTabs, lastPinnedIndex(newTabs) + 1, item)
               ELSE spliceInsert(newTabs,
                      findIndex(tabs, {t \in Range(tabs) : t.id = toId[1]}), item)

\* toId is <<>> for 'END' and <<id>> for a tab id
reorderPinnedTabs(tabs, fromId, toId) ==
  LET fromIndex == findIndex(tabs, {t \in Range(tabs) : t.id = fromId})
  IN  IF fromIndex = -1 THEN tabs
      ELSE LET item == tabs[fromIndex + 1]
               newTabs == spliceRemove(tabs, fromIndex)
           IN  IF toId = None
               THEN spliceInsert(newTabs, lastPinnedIndex(newTabs) + 1, item)
               ELSE spliceInsert(newTabs,
                      findIndex(newTabs, {t \in Range(newTabs) : t.id = toId[1]}), item)

\* updateMetadata(url, { [field]: value }): current, then the title snapshot of
\* the first live tab with this URL, then the update
updateMetadata(meta, tabs, url, field, value) ==
  LET current == getMetadata(meta, url)
      tabSnapshot == find(tabs, {t \in Range(tabs) : t.url = url})
      snapped == IF tabSnapshot # <<>>
                 THEN [current EXCEPT !.savedTitle = tabSnapshot[1].title]
                 ELSE current
      next == [snapped EXCEPT ![field] = value]
  IN  [u \in (DOMAIN meta) \cup {url} |-> IF u = url THEN next ELSE meta[u]]

\* the tag lists addTag, removeTag and renameTag store
addTagList(tags, tag) == tags \o <<tag>>
removeTagList(tags, tag) == SelectIn(tags, {t \in Range(tags) : t # tag})
renameTagList(tags, oldTag, newTag) ==
  [i \in 1..Len(tags) |-> IF tags[i] = oldTag THEN newTag ELSE tags[i]]

\* renameTab: tab.title = newTitle on the live tab with this id
renameTabList(tabs, tabId, newTitle) ==
  LET i == findIndex(tabs, {t \in Range(tabs) : t.id = tabId})
  IN  IF i = -1 THEN tabs ELSE [tabs EXCEPT ![i + 1].title = newTitle]

\* this.bookmarks.find(b => b.url === url) finds an item
hasBookmark(bms, url) == \E i \in 1..Len(bms) : bms[i].url = url

\* a toggleBookmark that never takes a bookmark out
toggleBookmarkListPush(bms, url) ==
  bms \o <<[url |-> url, groupId |-> GroupDefault, pinned |-> FALSE]>>

\* toggleBookmark on the bookmark list
toggleBookmarkList(bms, url) ==
  LET existingIndex == findIndex(bms, {b \in Range(bms) : b.url = url})
  IN  IF existingIndex >= 0 THEN spliceRemove(bms, existingIndex)
      ELSE bms \o <<[url |-> url, groupId |-> GroupDefault, pinned |-> FALSE]>>

toggleBookmarkPinList(bms, url) ==
  LET i == findIndex(bms, {b \in Range(bms) : b.url = url})
  IN  IF i = -1 THEN bms ELSE [bms EXCEPT ![i + 1].pinned = ~bms[i + 1].pinned]

\* a moveBookmark that files a second entry under the target group
moveBookmarkListCopy(bms, url, targetGroupId) ==
  LET i == findIndex(bms, {b \in Range(bms) : b.url = url})
  IN  IF i = -1 THEN bms ELSE bms \o <<[bms[i + 1] EXCEPT !.groupId = targetGroupId]>>

moveBookmarkList(bms, url, targetGroupId) ==
  LET i == findIndex(bms, {b \in Range(bms) : b.url = url})
  IN  IF i = -1 THEN bms ELSE [bms EXCEPT ![i + 1].groupId = targetGroupId]

\* ------------------------------------------------------------------------
\* useTabManager: the merge of live tabs, metadata and bookmarks
\* ------------------------------------------------------------------------
\* the id of a closed-but-bookmarked tab
pseudoId(url) == (-1) * urlHash(url)

\* liveTabs.map(...): one unified tab per live tab, in registry order
mergeLive(live, meta, bms) ==
  [i \in 1..Len(live) |->
     LET ct == live[i]
         bookmark == find(bms, {b \in Range(bms) : b.url = ct.url})
     IN  [id |-> ct.id, title |-> ct.title, url |-> ct.url,
          isActive |-> ct.active, isPinned |-> ct.pinned,
          tags |-> getMetadata(meta, ct.url).tags,
          isBookmarked |-> bookmark # <<>>,
          bookmarkGroupId |-> IF bookmark # <<>> THEN <<bookmark[1].groupId>> ELSE <<>>,
          isGroupPinned |-> IF bookmark # <<>> THEN bookmark[1].pinned ELSE FALSE]]

\* a merge that numbers the ghosts by their place in the bookmark list
mergeBookmarkedByPlace(live, meta, bms) ==
  [i \in 1..Len(bms) |->
     LET b == bms[i]
         liveTab == find(live, {t \in Range(live) : t.url = b.url})
         m == getMetadata(meta, b.url)
     IN  IF liveTab # <<>>
         THEN [id |-> liveTab[1].id, title |-> liveTab[1].title, url |-> liveTab[1].url,
               isActive |-> liveTab[1].active, isPinned |-> liveTab[1].pinned,
               tags |-> m.tags, isBookmarked |-> TRUE,
               bookmarkGroupId |-> <<b.groupId>>, isGroupPinned |-> b.pinned]
         ELSE [id |-> (-1) * i,
               title |-> IF m.savedTitle # EmptyStr THEN m.savedTitle ELSE b.url,
               url |-> b.url, isActive |-> FALSE, isPinned |-> FALSE,
               tags |-> m.tags, isBookmarked |-> TRUE,
               bookmarkGroupId |-> <<b.groupId>>, isGroupPinned |-> b.pinned]]

\* bookmarks.map(...): the live tab with the bookmark's URL, or a ghost
mergeBookmarked(live, meta, bms) ==
  [i \in 1..Len(bms) |->
     LET b == bms[i]
         liveTab == find(live, {t \in Range(live) : t.url = b.url})
         m == getMetadata(meta, b.url)
     IN  IF liveTab # <<>>
         THEN [id |-> liveTab[1].id, title |-> liveTab[1].title, url |-> liveTab[1].url,
               isActive |-> liveTab[1].active, isPinned |-> liveTab[1].pinned,
               tags |-> m.tags, isBookmarked |-> TRUE,
               bookmarkGroupId |-> <<b.groupId>>, isGroupPinned |-> b.pinned]
         ELSE [id |-> pseudoId(b.url),
               title |-> IF m.savedTitle # EmptyStr THEN m.savedTitle ELSE b.url,
               url |-> b.url, isActive |-> FALSE, isPinned |-> FALSE,
               tags |-> m.tags, isBookmarked |-> TRUE,
               bookmarkGroupId |-> <<b.groupId>>, isGroupPinned |-> b.pinned]]

tabs == mergeLive(liveTabs, metadata, bookmarks)
getAllBookmarkedTabs == mergeBookmarked(liveTabs, metadata, bookmarks)
allBookmarkedTabs == getAllBookmarkedTabs

\* ------------------------------------------------------------------------
\* Comparators
\* ------------------------------------------------------------------------
RECURSIVE compareCodes(_, _)
compareCodes(a, b) ==
  IF a = <<>> /\ b = <<>> THEN 0
  ELSE IF a = <<>> THEN -1
  ELSE IF b = <<>> THEN 1
  ELSE IF Head(a) < Head(b) THEN -1
  ELSE IF Head(a) > Head(b) THEN 1
  ELSE compareCodes(Tail(a), Tail(b))

\* case rank of a code unit: lower case sorts before upper case
RECURSIVE compareCase(_, _)
compareCase(a, b) ==
  IF a = <<>> \/ b = <<>> THEN 0
  ELSE IF Head(a) = Head(b) THEN compareCase(Tail(a), Tail(b))
  ELSE IF Head(a) > Head(b) THEN -1 ELSE 1

\* String.prototype.localeCompare on ASCII letters, digits, '-' and '.':
\* letters compare without case first, then lower case before upper case
localeCompare(a, b) ==
  LET primary == compareCodes(toLowerCase(a), toLowerCase(b))
  IN  IF primary # 0 THEN primary ELSE compareCase(a, b)

\* "https://", "http://", "www.", "Other"
SchemeHttps == <<104, 116, 116, 112, 115, 58, 47, 47>>
SchemeHttp == <<104, 116, 116, 112, 58, 47, 47>>
Www == <<119, 119, 119, 46>>
Other == <<79, 116, 104, 101, 114>>

\* the characters of s before the first '/', '?', '#' or ':'
RECURSIVE hostOf(_)
hostOf(s) ==
  IF s = <<>> \/ Head(s) \in {47, 63, 35, 58} THEN <<>> ELSE <<Head(s)>> \o hostOf(Tail(s))

\* getDomain: new URL(url).hostname without a leading "www.", or 'Other'
getDomain(url) ==
  LET rest == IF startsWith(url, SchemeHttps) THEN SubSeq(url, 9, Len(url))
              ELSE IF startsWith(url, SchemeHttp) THEN SubSeq(url, 8, Len(url))
              ELSE <<>>
      host == toLowerCase(hostOf(rest))
  IN  IF host = <<>> THEN Other
      ELSE IF startsWith(host, Www) THEN SubSeq(host, 5, Len(host)) ELSE host

bool2cmp(aFirst) == IF aFirst THEN -1 ELSE 1

\* the three sort callbacks of filteredTabs
compareGroups(a, b) ==
  LET domainCompare == localeCompare(getDomain(a.url), getDomain(b.url))
  IN  IF domainCompare # 0 THEN domainCompare
      ELSE IF a.isPinned # b.isPinned THEN bool2cmp(a.isPinned)
      ELSE localeCompare(a.title, b.title)

groupKey(t) == IF t.bookmarkGroupId = <<>> THEN EmptyStr ELSE t.bookmarkGroupId[1]

compareBookmarks(a, b) ==
  LET groupCompare == localeCompare(groupKey(a), groupKey(b))
  IN  IF groupCompare # 0 THEN groupCompare
      ELSE IF a.isGroupPinned # b.isGroupPinned THEN bool2cmp(a.isGroupPinned)
      ELSE localeCompare(a.title, b.title)

compareList(a, b) ==
  IF a.isPinned /\ ~b.isPinned THEN -1
  ELSE IF ~a.isPinned /\ b.isPinned THEN 1
  ELSE 0

\* App.tsx (the version with local state): pinnedAt || 0, and the sort callback
\* of handleReorderPinnedTabs
stampV1(t) == IF t.pinnedAt = <<>> THEN 0 ELSE t.pinnedAt[1]
comparePinnedAtV1(a, b) == stampV1(a) - stampV1(b)

\* App.tsx (the version with local state): the sort callback of filteredTabs
compareListV1(a, b) ==
  IF a.isPinned # b.isPinned THEN bool2cmp(a.isPinned)
  ELSE IF a.isPinned /\ b.isPinned THEN stampV1(a) - stampV1(b)
  ELSE 0

\* the version with view modes and local state: the LIST sort callback of filteredTabs
compareListV2(a, b) ==
  IF a.isPinned /\ b.isPinned THEN stampV1(a) - stampV1(b)
  ELSE 0

compareBy(mode, a, b) ==
  IF mode = "GROUPS" THEN compareGroups(a, b)
  ELSE IF mode = "BOOKMARKS" THEN compareBookmarks(a, b)
  ELSE IF mode = "PINNED_AT" THEN comparePinnedAtV1(a, b)
  ELSE IF mode = "LIST_V1" THEN compareListV1(a, b)
  ELSE IF mode = "LIST_V2" THEN compareListV2(a, b)
  ELSE compareList(a, b)

\* Array.prototype.sort is stable: x goes before the first element it is less than
RECURSIVE insertSorted(_, _, _)
insertSorted(sorted, x, mode) ==
  IF sorted = <<>> THEN <<x>>
  ELSE IF compareBy(mode, x, Head(sorted)) < 0 THEN <<x>> \o sorted
  ELSE <<Head(sorted)>> \o insertSorted(Tail(sorted), x, mode)

RECURSIVE sortFrom(_, _, _)
sortFrom(sorted, rest, mode) ==
  IF rest = <<>> THEN sorted
  ELSE sortFrom(insertSorted(sorted, Head(rest), mode), Tail(rest), mode)

sort(s, mode) == sortFrom(<<>>, s, mode)

\* Array.prototype.sort as Chrome runs it on a short array (fewer than 64 elements):
\* the leading run is found and made ascending, the rest is inserted by binary search.
\* With a callback that is a consistent ordering this is sort(s, mode); with one that
\* is not, the order is left to the engine and this is the engine's order.
RECURSIVE runLength(_, _, _, _)
runLength(s, mode, descending, idx) ==
  IF idx > Len(s) THEN Len(s)
  ELSE LET order == compareBy(mode, s[idx], s[idx - 1])
       IN  IF descending /\ order >= 0 THEN idx - 1
           ELSE IF ~descending /\ order < 0 THEN idx - 1
           ELSE runLength(s, mode, descending, idx + 1)

reversed(s) == [i \in 1..Len(s) |-> s[Len(s) + 1 - i]]

RECURSIVE binarySearch(_, _, _, _, _)
binarySearch(s, pivot, left, right, mode) ==
  IF left >= right THEN left
  ELSE LET mid == left + ((right - left) \div 2)
       IN  IF compareBy(mode, pivot, s[mid + 1]) < 0
           THEN binarySearch(s, pivot, left, mid, mode)
           ELSE binarySearch(s, pivot, mid + 1, right, mode)

RECURSIVE binaryInsertionSort(_, _, _)
binaryInsertionSort(s, start, mode) ==
  IF start >= Len(s) THEN s
  ELSE LET pivot == s[start + 1]
           left == binarySearch(s, pivot, 0, start, mode)
       IN  binaryInsertionSort(SubSeq(s, 1, left) \o <<pivot>> \o SubSeq(s, left + 1, start)
                                 \o SubSeq(s, start + 2, Len(s)),
                               start + 1, mode)

sortV8(s, mode) ==
  IF Len(s) < 2 THEN s
  ELSE LET descending == compareBy(mode, s[2], s[1]) < 0
           run == runLength(s, mode, descending, 3)
           made == IF descending THEN reversed(SubSeq(s, 1, run)) \o SubSeq(s, run + 1, Len(s))
                   ELSE s
       IN  binaryInsertionSort(made, run, mode)

\* the two ways a stable sort may run: insertion from the front, or the engine's
SortEngines == {"insertion", "V8"}
sortWith(engine, s, mode) == IF engine = "V8" THEN sortV8(s, mode) ELSE sort(s, mode)

\* ------------------------------------------------------------------------
\* App: derived state
\* ------------------------------------------------------------------------
\* triggers "mark", "close", "mute"
AVAILABLE_COMMANDS ==
  << [id |-> "mark", trigger |-> <<109, 97, 114, 107>>],
     [id |-> "close", trigger |-> <<99, 108, 111, 115, 101>>],
     [id |-> "mute", trigger |-> <<109, 117, 116, 101>>] >>

sourceTabs == IF viewMode = "BOOKMARKS" THEN allBookmarkedTabs ELSE tabs

\* a query test that compares the query as typed
matchesQueryAsTyped(t, q) ==
  \/ includes(toLowerCase(t.title), q)
  \/ includes(toLowerCase(t.url), q)
  \/ \E i \in 1..Len(t.tags) : includes(toLowerCase(t.tags[i]), q)

\* the query test of filteredTabs
matchesQuery(t, q) ==
  LET lowerQ == toLowerCase(q)
  IN  \/ includes(toLowerCase(t.title), lowerQ)
      \/ includes(toLowerCase(t.url), lowerQ)
      \/ \E i \in 1..Len(t.tags) : includes(toLowerCase(t.tags[i]), lowerQ)

\* filteredTabs before sorting
filterTabs(src, q, mode, cmd) ==
  IF mode = "COMMAND_SELECT" THEN src
  ELSE IF q # EmptyStr THEN SelectIn(src, {t \in Range(src) : matchesQuery(t, q)})
  ELSE src

filteredTabs ==
  IF inputMode = "COMMAND_ACTIVE" /\ activeCommand = "mark"
  THEN SelectIn(sourceTabs, {t \in Range(sourceTabs) : t.isActive})
  ELSE sort(filterTabs(sourceTabs, query, inputMode, activeCommand), viewMode)

pinnedTabs == SelectIn(filteredTabs, {t \in Range(filteredTabs) : t.isPinned})
unpinnedTabs == SelectIn(filteredTabs, {t \in Range(filteredTabs) : ~t.isPinned})

visibleTabs ==
  IF viewMode = "GROUPS" \/ viewMode = "BOOKMARKS" THEN filteredTabs
  ELSE IF isPinnedExpanded THEN pinnedTabs \o unpinnedTabs
  ELSE unpinnedTabs

detailTab ==
  IF detailTabId = None THEN <<>>
  ELSE find(sourceTabs, {t \in Range(sourceTabs) : t.id = detailTabId[1]})

filteredCommands ==
  IF inputMode # "COMMAND_SELECT" THEN <<>>
  ELSE LET cmdQuery == toLowerCase(SubSeq(query, 2, Len(query)))
       IN  SelectIn(AVAILABLE_COMMANDS,
                    {c \in Range(AVAILABLE_COMMANDS) : includes(c.trigger, cmdQuery)})

\* ------------------------------------------------------------------------
\* React: which hook dependencies a handler or an effect changed
\* ------------------------------------------------------------------------
\* notified: the service called notify(), which bumps the hook's tick
StaleDeps(notified) ==
  (IF notified THEN {"tabs"} ELSE {})
  \cup (IF query' # query THEN {"query"} ELSE {})
  \cup (IF inputMode' # inputMode THEN {"inputMode"} ELSE {})
  \cup (IF activeCommand' # activeCommand THEN {"activeCommand"} ELSE {})
  \cup (IF viewMode' # viewMode THEN {"viewMode"} ELSE {})
  \cup (IF isPinnedExpanded' # isPinnedExpanded THEN {"isPinnedExpanded"} ELSE {})
  \cup (IF targetTabIdToSelect' # targetTabIdToSelect THEN {"target"} ELSE {})
  \cup (IF \/ isOpen' # isOpen
           \/ detailTabId' # detailTabId
           \/ selectedTabIndex' # selectedTabIndex
           \/ selectedCommandIndex' # selectedCommandIndex
        THEN {"other"} ELSE {})

\* the memo of filteredTabs is recomputed: one of its dependencies changed;
\* in BOOKMARKS mode sourceTabs is a fresh array on every render
filteredTabsChanged ==
  \/ viewMode = "BOOKMARKS"
  \/ stale \cap {"tabs", "query", "inputMode", "activeCommand", "viewMode"} # {}

\* prevFilteredTabsRef.current !== visibleTabs
listChanged ==
  \/ filteredTabsChanged
  \/ viewMode = "LIST" /\ "isPinnedExpanded" \in stale

\* an effect that lets a changed list win over the pending target
selectionEffectListFirst(visible, target, sel, viewModeChanged, changed) ==
  IF viewModeChanged THEN <<-1, None>>
  ELSE IF changed THEN <<0, None>>
  ELSE IF target # None
  THEN LET newIndex == findIndex(visible, {t \in Range(visible) : t.id = target[1]})
       IN  <<IF newIndex # -1 THEN newIndex ELSE sel, None>>
  ELSE <<sel, target>>

\* an effect that keeps a pending target it did not find
selectionEffectKeepUnfound(visible, target, sel, viewModeChanged, changed) ==
  IF target # None
  THEN LET newIndex == findIndex(visible, {t \in Range(visible) : t.id = target[1]})
       IN  IF newIndex # -1 THEN <<newIndex, None>> ELSE <<sel, target>>
  ELSE IF viewModeChanged THEN <<-1, target>>
  ELSE IF changed THEN <<0, target>>
  ELSE <<sel, target>>

\* the Selection Index Logic effect: <<selectedTabIndex, targetTabIdToSelect>>
selectionEffect(visible, target, sel, viewModeChanged, changed) ==
  IF target # None
  THEN LET newIndex == findIndex(visible, {t \in Range(visible) : t.id = target[1]})
       IN  <<IF newIndex # -1 THEN newIndex ELSE sel, None>>
  ELSE IF viewModeChanged THEN <<-1, target>>
  ELSE IF changed THEN <<0, target>>
  ELSE <<sel, target>>

Ev(op) == [op |-> op, followed |-> None]

\* one render and the effects it schedules
Commit ==
  /\ mounted
  /\ stale # {}
  /\ LET runSelection == listChanged \/ stale \cap {"target", "viewMode"} # {}
         sel == selectionEffect(visibleTabs, targetTabIdToSelect, selectedTabIndex,
                                prevViewModeRef # viewMode, listChanged)
     IN  /\ selectedTabIndex' = IF runSelection THEN sel[1] ELSE selectedTabIndex
         /\ targetTabIdToSelect' = IF runSelection THEN sel[2] ELSE targetTabIdToSelect
         /\ prevFilteredTabsRef' = IF runSelection THEN visibleTabs ELSE prevFilteredTabsRef
         /\ prevViewModeRef' = IF runSelection THEN viewMode ELSE prevViewModeRef
         /\ ev' = [ev EXCEPT !.followed = IF runSelection THEN targetTabIdToSelect ELSE None]
  /\ isPinnedExpanded' = IF "query" \in stale /\ Len(query) > 0 THEN TRUE ELSE isPinnedExpanded
  /\ selectedCommandIndex' = IF stale \cap {"query", "inputMode"} # {} THEN 0
                             ELSE selectedCommandIndex
  /\ UNCHANGED <<serviceVars, isOpen, query, inputMode, activeCommand, viewMode, detailTabId,
                 timerVars>>
  /\ stale' = StaleDeps(FALSE)

\* ------------------------------------------------------------------------
\* Start-up
\* ------------------------------------------------------------------------
\* simulateBrowserStartup: the raw tabs, and metadata for tabs with tags
startupLiveTabsOf(ts) ==
  [i \in 1..Len(ts) |->
     [id |-> ts[i].id, title |-> ts[i].title, url |-> ts[i].url,
      active |-> ts[i].isActive, pinned |-> ts[i].isPinned]]

startupMetadataOf(ts) ==
  LET tagged == {i \in 1..Len(ts) : ts[i].tags # <<>>}
  IN  [u \in {ts[i].url : i \in tagged} |->
         LET i == CHOOSE j \in tagged : ts[j].url = u
         IN  [tags |-> ts[i].tags, note |-> EmptyStr, savedTitle |-> ts[i].title]]

startupLiveTabs == startupLiveTabsOf(INITIAL_TABS)
startupMetadata == startupMetadataOf(INITIAL_TABS)

\* what localStorage may hold from an earlier session (loadFromStorage takes it
\* as it is): nothing, or bookmarks, with the metadata toggleBookmark saved for
\* them, of pages that are not open now
StoredUrls == <<UrlStored, UrlAa, UrlBB>>

Stored ==
  { [bookmarks |-> <<>>, metadata |-> <<>>],
    [bookmarks |-> [i \in 1..Len(StoredUrls) |->
                     [url |-> StoredUrls[i], groupId |-> GroupDefault, pinned |-> FALSE]],
     metadata |-> [u \in (DOMAIN startupMetadata) \cup Range(StoredUrls) |->
                     IF u \in Range(StoredUrls)
                     THEN [tags |-> <<>>, note |-> EmptyStr, savedTitle |-> TitleD]
                     ELSE startupMetadata[u]]] }

InitApp ==
  /\ isOpen = TRUE
  /\ query = EmptyStr
  /\ inputMode = "SEARCH"
  /\ activeCommand = "none"
  /\ viewMode = "LIST"
  /\ isPinnedExpanded = TRUE
  /\ targetTabIdToSelect = None
  /\ detailTabId = None
  /\ selectedTabIndex = 0
  /\ selectedCommandIndex = 0
  /\ prevFilteredTabsRef = visibleTabs
  /\ prevViewModeRef = viewMode
  /\ timers = {}
  /\ mounted = TRUE
  /\ stale = {}
  /\ ev = Ev("init")

\* the first start: nothing in localStorage
InitFresh ==
  /\ liveTabs = startupLiveTabs
  /\ bookmarks = <<>>
  /\ metadata = startupMetadata
  /\ bookmarkGroups = INITIAL_BOOKMARK_GROUPS
  /\ InitApp

\* the first start with one tab more, for the reordering of three pinned tabs
InitReorder ==
  /\ liveTabs = startupLiveTabsOf(InitialTabs(NumTabs + 1))
  /\ bookmarks = <<>>
  /\ metadata = startupMetadataOf(InitialTabs(NumTabs + 1))
  /\ bookmarkGroups = INITIAL_BOOKMARK_GROUPS
  /\ InitApp

Init ==
  /\ liveTabs = startupLiveTabs
  /\ \E st \in Stored :
       /\ bookmarks = st.bookmarks
       /\ metadata = IF DOMAIN st.metadata = {} THEN startupMetadata ELSE st.metadata
  /\ bookmarkGroups = INITIAL_BOOKMARK_GROUPS
  /\ InitApp

\* ------------------------------------------------------------------------
\* TabList: the rows it renders, top to bottom, each with its row index
\* ------------------------------------------------------------------------
rowsOf(ts, offset) == [i \in 1..Len(ts) |-> [tab |-> ts[i], index |-> offset + i - 1]]

RECURSIVE bookmarkRows(_, _)
bookmarkRows(groups, allTabs) ==
  IF groups = <<>> THEN <<>>
  ELSE LET groupTabs == SelectIn(allTabs, {t \in Range(allTabs) :
                                            t.bookmarkGroupId = <<Head(groups).id>>})
       IN  [i \in 1..Len(groupTabs) |->
              [tab |-> groupTabs[i],
               index |-> findIndex(allTabs, {t \in Range(allTabs) : t.id = groupTabs[i].id})]]
           \o bookmarkRows(Tail(groups), allTabs)

renderedRows ==
  IF viewMode = "LIST"
  THEN IF visibleTabs = <<>> THEN <<>>
       ELSE (IF isPinnedExpanded THEN rowsOf(pinnedTabs, 0) ELSE <<>>)
            \o rowsOf(unpinnedTabs, Len(pinnedTabs))
  ELSE IF viewMode = "GROUPS" THEN rowsOf(visibleTabs, 0)
  ELSE bookmarkRows(bookmarkGroups, visibleTabs)

\* a row can be clicked: the panel is open, idle, and no overlay covers the list
RowsClickable ==
  /\ mounted
  /\ stale = {}
  /\ isOpen
  /\ detailTab = <<>>
  /\ inputMode # "COMMAND_SELECT"

\* rows drawn by renderRow carry the pin control and the tags; bookmark cards do not
ListRows == IF viewMode = "BOOKMARKS" THEN {} ELSE Range(renderedRows)

\* ------------------------------------------------------------------------
\* useTabManager actions on the metadata store
\* ------------------------------------------------------------------------
urlOfLive(id) ==
  LET tab == find(tabs, {t \in Range(tabs) : t.id = id})
  IN  IF tab = <<>> THEN <<>> ELSE <<tab[1].url>>

\* chromeService.addTag / removeTag / renameTag: the metadata they leave
addTag(meta, live, url, tag) ==
  IF tag \in Range(getMetadata(meta, url).tags) THEN meta
  ELSE updateMetadata(meta, live, url, "tags", addTagList(getMetadata(meta, url).tags, tag))

removeTag(meta, live, url, tag) ==
  updateMetadata(meta, live, url, "tags", removeTagList(getMetadata(meta, url).tags, tag))

renameTag(meta, live, url, oldTag, newTag) ==
  updateMetadata(meta, live, url, "tags",
                 renameTagList(getMetadata(meta, url).tags, oldTag, newTag))

\* the texts typed into tag editors: "q", "Q"
TagTexts == {TagLq, TagUq}

\* TabList onAddTag (AddTagButton submits the trimmed text when it is not empty)
RowAddTag ==
  /\ RowsClickable
  /\ \E r \in ListRows, text \in TagTexts :
       LET url == urlOfLive(r.tab.id)
           tag == trim(text)
       IN  /\ tag # EmptyStr
           /\ Len(r.tab.tags) < MaxTags
           /\ targetTabIdToSelect' = Some(r.tab.id)
           /\ metadata' = IF url = <<>> THEN metadata
                           ELSE addTag(metadata, liveTabs, url[1], tag)
           /\ timers' = timers \cup {"focus"}
           /\ ev' = Ev("addTag")
           /\ UNCHANGED <<liveTabs, bookmarks, bookmarkGroups, isOpen, query, inputMode,
                          activeCommand, viewMode, isPinnedExpanded, detailTabId,
                          selectedTabIndex, selectedCommandIndex, refVars, mounted>>
           /\ stale' = StaleDeps(url # <<>> /\ metadata' # metadata)

\* TabList onRemoveTag (the x of a tag chip)
RowRemoveTag ==
  /\ RowsClickable
  /\ \E r \in ListRows : \E tag \in Range(r.tab.tags) :
       LET url == urlOfLive(r.tab.id)
       IN  /\ targetTabIdToSelect' = Some(r.tab.id)
           /\ metadata' = IF url = <<>> THEN metadata
                           ELSE removeTag(metadata, liveTabs, url[1], tag)
           /\ ev' = Ev("removeTag")
           /\ UNCHANGED <<liveTabs, bookmarks, bookmarkGroups, isOpen, query, inputMode,
                          activeCommand, viewMode, isPinnedExpanded, detailTabId,
                          selectedTabIndex, selectedCommandIndex, refVars, timerVars>>
           /\ stale' = StaleDeps(url # <<>>)

\* the texts left in the tag editor: "q", "Q", ""
RenameTexts == TagTexts \cup {EmptyStr}

\* TabList onRenameTag (TagItem passes the edited text as typed)
RowRenameTag ==
  /\ RowsClickable
  /\ \E r \in ListRows, text \in RenameTexts : \E oldTag \in Range(r.tab.tags) :
       LET url == urlOfLive(r.tab.id)
       IN  /\ targetTabIdToSelect' = Some(r.tab.id)
           /\ metadata' = IF url = <<>> THEN metadata
                           ELSE renameTag(metadata, liveTabs, url[1], oldTag, text)
           /\ timers' = timers \cup {"focus"}
           /\ ev' = Ev("renameTag")
           /\ UNCHANGED <<liveTabs, bookmarks, bookmarkGroups, isOpen, query, inputMode,
                          activeCommand, viewMode, isPinnedExpanded, detailTabId,
                          selectedTabIndex, selectedCommandIndex, refVars, mounted>>
           /\ stale' = StaleDeps(url # <<>>)

\* ------------------------------------------------------------------------
\* App: the search box and the command mode
\* ------------------------------------------------------------------------
\* the texts the search box may hold: "", "/", "/c", "/close", "/mark", "q", "B", " "
QueryTexts ==
  { EmptyStr, Slash, <<47, 99>>, <<47, 99, 108, 111, 115, 101>>, <<47, 109, 97, 114, 107>>,
    TagLq, <<66>>, Blank }

\* an onChange that opens the palette on "/" in whatever mode
handleInputChangeAnyMode(val) ==
  /\ mounted
  /\ stale = {}
  /\ isOpen
  /\ val # query
  /\ IF val = Slash
     THEN inputMode' = "COMMAND_SELECT" /\ query' = val
     ELSE IF inputMode = "COMMAND_SELECT" /\ val = EmptyStr
     THEN inputMode' = "SEARCH" /\ query' = EmptyStr
     ELSE inputMode' = inputMode /\ query' = val
  /\ ev' = Ev("input")
  /\ UNCHANGED <<serviceVars, isOpen, activeCommand, viewMode, isPinnedExpanded,
                 targetTabIdToSelect, detailTabId, selectedTabIndex, selectedCommandIndex,
                 refVars, timerVars>>
  /\ stale' = StaleDeps(FALSE)

\* input onChange with the value val, fired by the event op
onChange(val, op) ==
  /\ mounted
  /\ stale = {}
  /\ isOpen
  /\ val # query
  /\ IF inputMode = "SEARCH" /\ val = Slash
     THEN inputMode' = "COMMAND_SELECT" /\ query' = val
     ELSE IF inputMode = "COMMAND_SELECT" /\ val = EmptyStr
     THEN inputMode' = "SEARCH" /\ query' = EmptyStr
     ELSE inputMode' = inputMode /\ query' = val
  /\ ev' = Ev(op)
  /\ UNCHANGED <<serviceVars, isOpen, activeCommand, viewMode, isPinnedExpanded,
                 targetTabIdToSelect, detailTabId, selectedTabIndex, selectedCommandIndex,
                 refVars, timerVars>>
  /\ stale' = StaleDeps(FALSE)

\* input onChange when text is typed or pasted
handleInputChange(val) == onChange(val, "input")

InputChange == \E val \in QueryTexts : handleInputChange(val)

\* the texts typed when searching: "", "q", "B", "Re", " "
SearchTexts == {EmptyStr, TagLq, <<66>>, <<82, 101>>, Blank}

\* typing a search text into the search box
TypeSearch ==
  /\ inputMode = "SEARCH"
  /\ \E val \in SearchTexts : handleInputChange(val)

\* typing "/" into the empty search box
TypeSlash ==
  /\ inputMode = "SEARCH"
  /\ query = EmptyStr
  /\ handleInputChange(Slash)

\* the texts typed to pick a command: "", "/", "/c", "/close", "/mark", "/MARK", "/x"
PaletteTexts ==
  { EmptyStr, Slash, <<47, 99>>, <<47, 99, 108, 111, 115, 101>>, <<47, 109, 97, 114, 107>>,
    <<47, 77, 65, 82, 75>>, <<47, 120>> }

\* typing at the palette: "/" into the search box, then the letters of a trigger
TypePalette ==
  /\ inputMode # "COMMAND_ACTIVE"
  /\ inputMode = "SEARCH" => query = EmptyStr
  /\ \E val \in PaletteTexts :
       /\ inputMode = "SEARCH" => val = Slash
       /\ handleInputChange(val)

\* typing a tag name at the prompt of an active command
TypeTag ==
  /\ inputMode = "COMMAND_ACTIVE"
  /\ \E val \in TagTexts \cup {Blank} : handleInputChange(val)

\* CommandMenu onSelect (a click on a palette entry)
selectCommand(cmd) ==
  /\ mounted
  /\ stale = {}
  /\ isOpen
  /\ inputMode = "COMMAND_SELECT"
  /\ activeCommand' = cmd.id
  /\ inputMode' = "COMMAND_ACTIVE"
  /\ query' = EmptyStr
  /\ ev' = Ev("palette")
  /\ UNCHANGED <<serviceVars, isOpen, viewMode, isPinnedExpanded, targetTabIdToSelect,
                 detailTabId, selectedTabIndex, selectedCommandIndex, refVars, timerVars>>
  /\ stale' = StaleDeps(FALSE)

PaletteClick == \E cmd \in Range(filteredCommands) : selectCommand(cmd)

\* a click on the palette entry of MARK, of CLOSE
PaletteMark == \E cmd \in Range(filteredCommands) : cmd.id = "mark" /\ selectCommand(cmd)
PaletteClose == \E cmd \in Range(filteredCommands) : cmd.id = "close" /\ selectCommand(cmd)

activeLiveTab == find(tabs, {t \in Range(tabs) : t.isActive})

\* handleTabClick: actions.activateTab, then back to an empty search
handleTabClick(tab) ==
  /\ liveTabs' = IF tab.id > 0 THEN activateTab(liveTabs, tab.id) ELSE liveTabs
  /\ query' = EmptyStr
  /\ inputMode' = "SEARCH"
  /\ ev' = Ev("activate")
  /\ UNCHANGED <<metadata, bookmarks, bookmarkGroups, isOpen, activeCommand, viewMode,
                 isPinnedExpanded, targetTabIdToSelect, detailTabId, selectedTabIndex,
                 selectedCommandIndex, refVars, timerVars>>
  /\ stale' = StaleDeps(tab.id > 0)

\* a MARK that tags the first live tab, active or not
executeMarkCommandFirstTab ==
  IF trim(query) = EmptyStr
  THEN /\ ev' = Ev("mark")
       /\ UNCHANGED <<serviceVars, appVars, refVars, timerVars>>
       /\ stale' = StaleDeps(FALSE)
  ELSE LET activeTab == at(tabs, 0)
           url == IF activeTab = <<>> THEN <<>> ELSE urlOfLive(activeTab[1].id)
       IN  /\ activeTab # <<>> => Len(activeTab[1].tags) < MaxTags
           /\ targetTabIdToSelect' = IF activeTab # <<>> THEN Some(activeTab[1].id)
                                     ELSE targetTabIdToSelect
           /\ metadata' = IF url = <<>> THEN metadata
                           ELSE addTag(metadata, liveTabs, url[1], trim(query))
           /\ query' = EmptyStr
           /\ inputMode' = "SEARCH"
           /\ activeCommand' = "none"
           /\ timers' = IF activeTab # <<>> THEN timers \cup {"highlight"} ELSE timers
           /\ ev' = Ev("mark")
           /\ UNCHANGED <<liveTabs, bookmarks, bookmarkGroups, isOpen, viewMode,
                          isPinnedExpanded, detailTabId, selectedTabIndex,
                          selectedCommandIndex, refVars, mounted>>
           /\ stale' = StaleDeps(metadata' # metadata)

\* executeMarkCommand(query)
executeMarkCommand ==
  IF trim(query) = EmptyStr
  THEN /\ ev' = Ev("mark")
       /\ UNCHANGED <<serviceVars, appVars, refVars, timerVars>>
       /\ stale' = StaleDeps(FALSE)
  ELSE LET activeTab == activeLiveTab
           url == IF activeTab = <<>> THEN <<>> ELSE urlOfLive(activeTab[1].id)
       IN  /\ activeTab # <<>> => Len(activeTab[1].tags) < MaxTags
           /\ targetTabIdToSelect' = IF activeTab # <<>> THEN Some(activeTab[1].id)
                                     ELSE targetTabIdToSelect
           /\ metadata' = IF url = <<>> THEN metadata
                           ELSE addTag(metadata, liveTabs, url[1], trim(query))
           /\ query' = EmptyStr
           /\ inputMode' = "SEARCH"
           /\ activeCommand' = "none"
           /\ timers' = IF activeTab # <<>> THEN timers \cup {"highlight"} ELSE timers
           /\ ev' = Ev("mark")
           /\ UNCHANGED <<liveTabs, bookmarks, bookmarkGroups, isOpen, viewMode,
                          isPinnedExpanded, detailTabId, selectedTabIndex,
                          selectedCommandIndex, refVars, mounted>>
           /\ stale' = StaleDeps(metadata' # metadata)

\* a CLOSE that, like MARK, waits for a typed argument
executeCloseCommandNeedsArg ==
  IF trim(query) = EmptyStr
  THEN /\ ev' = Ev("close")
       /\ UNCHANGED <<serviceVars, appVars, refVars, timerVars>>
       /\ stale' = StaleDeps(FALSE)
  ELSE LET activeTab == activeLiveTab
       IN  /\ liveTabs' = IF activeTab # <<>> THEN closeTab(liveTabs, activeTab[1].id)
                           ELSE liveTabs
           /\ query' = EmptyStr
           /\ inputMode' = "SEARCH"
           /\ activeCommand' = "none"
           /\ ev' = Ev("close")
           /\ UNCHANGED <<metadata, bookmarks, bookmarkGroups, isOpen, viewMode,
                          isPinnedExpanded, targetTabIdToSelect, detailTabId,
                          selectedTabIndex, selectedCommandIndex, refVars, timerVars>>
           /\ stale' = StaleDeps(activeTab # <<>>)

\* executeCloseCommand
executeCloseCommand ==
  LET activeTab == activeLiveTab
  IN  /\ liveTabs' = IF activeTab # <<>> THEN closeTab(liveTabs, activeTab[1].id) ELSE liveTabs
      /\ query' = EmptyStr
      /\ inputMode' = "SEARCH"
      /\ activeCommand' = "none"
      /\ ev' = Ev("close")
      /\ UNCHANGED <<metadata, bookmarks, bookmarkGroups, isOpen, viewMode, isPinnedExpanded,
                     targetTabIdToSelect, detailTabId, selectedTabIndex, selectedCommandIndex,
                     refVars, timerVars>>
      /\ stale' = StaleDeps(activeTab # <<>>)

\* "/" + trigger
fullTrigger(cmd) == Slash \o cmd.trigger

\* handleGlobalKey: Enter in COMMAND_SELECT
enterCommandSelect ==
  LET cmd == at(filteredCommands, selectedCommandIndex)
  IN  /\ cmd # <<>>
      /\ IF toLowerCase(query) # toLowerCase(fullTrigger(cmd[1]))
         THEN /\ query' = fullTrigger(cmd[1])
              /\ UNCHANGED <<activeCommand, inputMode>>
         ELSE /\ activeCommand' = cmd[1].id
              /\ inputMode' = "COMMAND_ACTIVE"
              /\ query' = EmptyStr
      /\ ev' = Ev("enterSelect")
      /\ UNCHANGED <<serviceVars, isOpen, viewMode, isPinnedExpanded, targetTabIdToSelect,
                     detailTabId, selectedTabIndex, selectedCommandIndex, refVars, timerVars>>
      /\ stale' = StaleDeps(FALSE)

\* handleGlobalKey: Enter
KeyEnter ==
  /\ mounted
  /\ stale = {}
  /\ ~(selectedTabIndex = -1 /\ inputMode = "SEARCH" /\ activeCommand = "none")
  /\ IF inputMode = "COMMAND_SELECT" THEN enterCommandSelect
     ELSE IF inputMode = "COMMAND_ACTIVE"
     THEN IF activeCommand = "mark" THEN executeMarkCommand
          ELSE activeCommand = "close" /\ executeCloseCommand
     ELSE LET tab == at(visibleTabs, selectedTabIndex)
          IN  tab # <<>> /\ handleTabClick(tab[1])

\* a Backspace that leaves the command prompt whatever has been typed
KeyBackspaceAnyQuery ==
  /\ mounted
  /\ stale = {}
  /\ IF inputMode = "COMMAND_ACTIVE"
     THEN /\ inputMode' = "SEARCH"
          /\ activeCommand' = "none"
          /\ ev' = Ev("exitCommand")
          /\ UNCHANGED <<serviceVars, isOpen, query, viewMode, isPinnedExpanded,
                         targetTabIdToSelect, detailTabId, selectedTabIndex,
                         selectedCommandIndex, refVars, timerVars>>
          /\ stale' = StaleDeps(FALSE)
     ELSE /\ Len(query) > 0
          /\ onChange(SubSeq(query, 1, Len(query) - 1), "Backspace")

\* the Backspace key: handleGlobalKey leaves COMMAND_ACTIVE on an empty prompt and
\* prevents the default; otherwise the input deletes its last character and fires onChange
KeyBackspace ==
  /\ mounted
  /\ stale = {}
  /\ IF inputMode = "COMMAND_ACTIVE" /\ Len(query) = 0
     THEN /\ inputMode' = "SEARCH"
          /\ activeCommand' = "none"
          /\ ev' = Ev("exitCommand")
          /\ UNCHANGED <<serviceVars, isOpen, query, viewMode, isPinnedExpanded,
                         targetTabIdToSelect, detailTabId, selectedTabIndex,
                         selectedCommandIndex, refVars, timerVars>>
          /\ stale' = StaleDeps(FALSE)
     ELSE /\ Len(query) > 0
          /\ onChange(SubSeq(query, 1, Len(query) - 1), "Backspace")

\* an Escape that leaves a command prompt without clearing what was typed
KeyEscapeKeepsQuery ==
  /\ mounted
  /\ stale = {}
  /\ IF detailTabId # None
     THEN /\ detailTabId' = None
          /\ UNCHANGED <<inputMode, activeCommand, query, isOpen>>
     ELSE IF inputMode = "COMMAND_ACTIVE"
     THEN /\ inputMode' = "SEARCH"
          /\ activeCommand' = "none"
          /\ UNCHANGED <<detailTabId, query, isOpen>>
     ELSE IF Len(query) > 0
     THEN /\ query' = EmptyStr
          /\ inputMode' = "SEARCH"
          /\ UNCHANGED <<detailTabId, activeCommand, isOpen>>
     ELSE /\ isOpen' = FALSE
          /\ UNCHANGED <<detailTabId, inputMode, activeCommand, query>>
  /\ ev' = Ev("Escape")
  /\ UNCHANGED <<serviceVars, viewMode, isPinnedExpanded, targetTabIdToSelect,
                 selectedTabIndex, selectedCommandIndex, refVars, timerVars>>
  /\ stale' = StaleDeps(FALSE)

\* an Escape whose detail-view branch does not return
KeyEscapeFallsThrough ==
  /\ mounted
  /\ stale = {}
  /\ detailTabId' = None
  /\ IF inputMode = "COMMAND_ACTIVE"
     THEN /\ inputMode' = "SEARCH"
          /\ activeCommand' = "none"
          /\ query' = EmptyStr
          /\ UNCHANGED isOpen
     ELSE IF Len(query) > 0
     THEN /\ query' = EmptyStr
          /\ inputMode' = "SEARCH"
          /\ UNCHANGED <<activeCommand, isOpen>>
     ELSE /\ isOpen' = FALSE
          /\ UNCHANGED <<inputMode, activeCommand, query>>
  /\ ev' = Ev("Escape")
  /\ UNCHANGED <<serviceVars, viewMode, isPinnedExpanded, targetTabIdToSelect,
                 selectedTabIndex, selectedCommandIndex, refVars, timerVars>>
  /\ stale' = StaleDeps(FALSE)

\* handleGlobalKey: Escape
KeyEscape ==
  /\ mounted
  /\ stale = {}
  /\ IF detailTabId # None
     THEN /\ detailTabId' = None
          /\ UNCHANGED <<inputMode, activeCommand, query, isOpen>>
     ELSE IF inputMode = "COMMAND_ACTIVE"
     THEN /\ inputMode' = "SEARCH"
          /\ activeCommand' = "none"
          /\ query' = EmptyStr
          /\ UNCHANGED <<detailTabId, isOpen>>
     ELSE IF Len(query) > 0
     THEN /\ query' = EmptyStr
          /\ inputMode' = "SEARCH"
          /\ UNCHANGED <<detailTabId, activeCommand, isOpen>>
     ELSE /\ isOpen' = FALSE
          /\ UNCHANGED <<detailTabId, inputMode, activeCommand, query>>
  /\ ev' = Ev("Escape")
  /\ UNCHANGED <<serviceVars, viewMode, isPinnedExpanded, targetTabIdToSelect,
                 selectedTabIndex, selectedCommandIndex, refVars, timerVars>>
  /\ stale' = StaleDeps(FALSE)

\* a Cmd/Ctrl+E that resets the input on reopening but not the detail view
KeyToggleOpenKeepsDetail ==
  /\ mounted
  /\ stale = {}
  /\ isOpen' = ~isOpen
  /\ IF ~isOpen
     THEN /\ query' = EmptyStr
          /\ inputMode' = "SEARCH"
          /\ activeCommand' = "none"
     ELSE UNCHANGED <<query, inputMode, activeCommand>>
  /\ UNCHANGED detailTabId
  /\ timers' = IF ~isOpen THEN timers \cup {"focus"} ELSE timers
  /\ ev' = Ev("toggleOpen")
  /\ UNCHANGED <<serviceVars, viewMode, isPinnedExpanded, targetTabIdToSelect,
                 selectedTabIndex, selectedCommandIndex, refVars, mounted>>
  /\ stale' = StaleDeps(FALSE)

\* handleGlobalKey: Cmd/Ctrl+E
KeyToggleOpen ==
  /\ mounted
  /\ stale = {}
  /\ isOpen' = ~isOpen
  /\ IF ~isOpen
     THEN /\ query' = EmptyStr
          /\ inputMode' = "SEARCH"
          /\ activeCommand' = "none"
          /\ detailTabId' = None
     ELSE UNCHANGED <<query, inputMode, activeCommand, detailTabId>>
  /\ timers' = IF ~isOpen THEN timers \cup {"focus"} ELSE timers
  /\ ev' = Ev("toggleOpen")
  /\ UNCHANGED <<serviceVars, viewMode, isPinnedExpanded, targetTabIdToSelect,
                 selectedTabIndex, selectedCommandIndex, refVars, mounted>>
  /\ stale' = StaleDeps(FALSE)

\* the clear button of the search box
ClearButton ==
  /\ mounted
  /\ stale = {}
  /\ isOpen
  /\ Len(query) > 0
  /\ query' = EmptyStr
  /\ inputMode' = IF inputMode = "COMMAND_SELECT" THEN "SEARCH" ELSE inputMode
  /\ ev' = Ev("clear")
  /\ UNCHANGED <<serviceVars, isOpen, activeCommand, viewMode, isPinnedExpanded,
                 targetTabIdToSelect, detailTabId, selectedTabIndex, selectedCommandIndex,
                 refVars, timerVars>>
  /\ stale' = StaleDeps(FALSE)

\* TabList onSelect (a click on a row)
RowClick ==
  /\ RowsClickable
  /\ \E r \in Range(renderedRows) : handleTabClick(r.tab)

\* ------------------------------------------------------------------------
\* Pinning and reordering
\* ------------------------------------------------------------------------
\* TabList onTogglePin
RowTogglePin ==
  /\ RowsClickable
  /\ \E r \in ListRows :
       /\ targetTabIdToSelect' = Some(r.tab.id)
       /\ liveTabs' = togglePinTab(liveTabs, r.tab.id)
       /\ ev' = Ev("togglePin")
  /\ UNCHANGED <<metadata, bookmarks, bookmarkGroups, isOpen, query, inputMode, activeCommand,
                 viewMode, isPinnedExpanded, detailTabId, selectedTabIndex,
                 selectedCommandIndex, refVars, timerVars>>
  /\ stale' = StaleDeps(TRUE)

\* App onReorderPinnedTabs: the pending target, then the service call
onReorderPinnedTabs(fromId, toId, op) ==
  /\ targetTabIdToSelect' = Some(fromId)
  /\ liveTabs' = reorderPinnedTabs(liveTabs, fromId, toId)
  /\ ev' = Ev(op)
  /\ UNCHANGED <<metadata, bookmarks, bookmarkGroups, isOpen, query, inputMode, activeCommand,
                 viewMode, isPinnedExpanded, detailTabId, selectedTabIndex,
                 selectedCommandIndex, refVars, timerVars>>
  /\ stale' = StaleDeps(\E i \in 1..Len(liveTabs) : liveTabs[i].id = fromId)

\* the reorder target handleDropPinned asks for
dropTarget(pinned, targetTabId, position) ==
  IF position = "top" THEN Some(targetTabId)
  ELSE LET targetIndex == findIndex(pinned, {t \in Range(pinned) : t.id = targetTabId})
           nextTab == at(pinned, targetIndex + 1)
       IN  IF nextTab # <<>> THEN Some(nextTab[1].id) ELSE None

\* TabList handleDropPinned: a pinned row of the LIST view dropped on another one
DropPinned ==
  /\ RowsClickable
  /\ viewMode = "LIST"
  /\ \E src \in ListRows, dst \in ListRows, position \in {"top", "bottom"} :
       /\ src.tab.isPinned /\ dst.tab.isPinned
       /\ src.tab.id # dst.tab.id
       /\ onReorderPinnedTabs(src.tab.id, dropTarget(pinnedTabs, dst.tab.id, position), "drop")

\* an Alt+ArrowDown that asks for the place before the next pinned tab
altArrowTargetNeighbor(pinned, currentTab, key) ==
  LET currentIndexInPinned == findIndex(pinned, {t \in Range(pinned) : t.id = currentTab.id})
  IN  IF key = "ArrowUp" /\ currentIndexInPinned > 0
      THEN <<Some(pinned[currentIndexInPinned].id)>>
      ELSE IF key = "ArrowDown" /\ currentIndexInPinned < Len(pinned) - 1
      THEN <<Some(pinned[currentIndexInPinned + 2].id)>>
      ELSE <<>>

\* the reorder target of Alt+ArrowUp / Alt+ArrowDown: <<>> when nothing is moved,
\* else <<toId>> with toId as reorderPinnedTabs takes it
altArrowTarget(pinned, currentTab, key) ==
  LET currentIndexInPinned == findIndex(pinned, {t \in Range(pinned) : t.id = currentTab.id})
  IN  IF key = "ArrowUp" /\ currentIndexInPinned > 0
      THEN <<Some(pinned[currentIndexInPinned].id)>>
      ELSE IF key = "ArrowDown" /\ currentIndexInPinned < Len(pinned) - 1
      THEN LET targetAfterNeighbor == at(pinned, currentIndexInPinned + 2)
           IN  <<IF targetAfterNeighbor # <<>> THEN Some(targetAfterNeighbor[1].id) ELSE None>>
      ELSE <<>>

\* handleGlobalKey: Alt+ArrowUp / Alt+ArrowDown
KeyAltArrow ==
  /\ mounted
  /\ stale = {}
  /\ viewMode = "LIST"
  /\ selectedTabIndex # -1
  /\ \E key \in {"ArrowUp", "ArrowDown"} :
       LET currentTab == at(visibleTabs, selectedTabIndex)
       IN  /\ currentTab # <<>>
           /\ currentTab[1].isPinned
           /\ LET to == altArrowTarget(pinnedTabs, currentTab[1], key)
              IN  /\ to # <<>>
                  /\ liveTabs' = reorderPinnedTabs(liveTabs, currentTab[1].id, to[1])
                  /\ ev' = Ev(IF key = "ArrowUp" THEN "AltArrowUp" ELSE "AltArrowDown")
  /\ UNCHANGED <<metadata, bookmarks, bookmarkGroups, appVars, refVars, timerVars>>
  /\ stale' = StaleDeps(TRUE)

\* the index ArrowDown / ArrowUp move to
\* arrow keys that step without wrapping around
arrowIndexNoWrap(prev, length, key) ==
  IF key = "ArrowDown" THEN prev + 1 ELSE prev - 1

arrowIndex(prev, length, key) ==
  IF key = "ArrowDown"
  THEN IF prev = -1 THEN 0 ELSE (prev + 1) % length
  ELSE IF prev = -1 THEN length - 1 ELSE (prev - 1 + length) % length

\* handleGlobalKey: ArrowDown / ArrowUp
KeyArrow ==
  /\ mounted
  /\ stale = {}
  /\ ~(visibleTabs = <<>> /\ inputMode # "COMMAND_SELECT")
  /\ \E key \in {"ArrowUp", "ArrowDown"} :
       /\ IF inputMode = "COMMAND_SELECT"
          THEN /\ filteredCommands # <<>>
               /\ selectedCommandIndex' =
                    IF key = "ArrowDown"
                    THEN (selectedCommandIndex + 1) % Len(filteredCommands)
                    ELSE (selectedCommandIndex - 1 + Len(filteredCommands))
                           % Len(filteredCommands)
               /\ UNCHANGED selectedTabIndex
          ELSE /\ selectedTabIndex' = arrowIndex(selectedTabIndex, Len(visibleTabs), key)
               /\ UNCHANGED selectedCommandIndex
       /\ ev' = Ev(key)
  /\ UNCHANGED <<serviceVars, isOpen, query, inputMode, activeCommand, viewMode,
                 isPinnedExpanded, targetTabIdToSelect, detailTabId, refVars, timerVars>>
  /\ stale' = StaleDeps(FALSE)

\* ------------------------------------------------------------------------
\* Bookmarks, titles, view mode, details
\* ------------------------------------------------------------------------
\* chromeService.toggleBookmark(url, title): <<bookmarks, metadata>>
toggleBookmark(bms, meta, live, url, title) ==
  LET existingIndex == findIndex(bms, {b \in Range(bms) : b.url = url})
  IN  <<toggleBookmarkList(bms, url),
        IF existingIndex >= 0 THEN meta
        ELSE updateMetadata(meta, live, url, "savedTitle", title)>>

\* TabList onToggleBookmark (the star of a row, the unbookmark button of a card)
RowToggleBookmark ==
  /\ RowsClickable
  /\ \E r \in Range(renderedRows) :
       LET tab == find(tabs, {t \in Range(tabs) : t.id = r.tab.id})
           res == IF tab = <<>> THEN <<bookmarks, metadata>>
                  ELSE toggleBookmark(bookmarks, metadata, liveTabs, tab[1].url, tab[1].title)
       IN  /\ targetTabIdToSelect' = Some(r.tab.id)
           /\ bookmarks' = res[1]
           /\ metadata' = res[2]
           /\ ev' = Ev("toggleBookmark")
           /\ UNCHANGED <<liveTabs, bookmarkGroups, isOpen, query, inputMode, activeCommand,
                          viewMode, isPinnedExpanded, detailTabId, selectedTabIndex,
                          selectedCommandIndex, refVars, timerVars>>
           /\ stale' = StaleDeps(tab # <<>>)

\* App onToggleGroupPin: the pending target, then useTabManager toggleGroupPin
ToggleGroupPin ==
  /\ RowsClickable
  /\ \E r \in Range(renderedRows) :
       LET tab == find(getAllBookmarkedTabs,
                       {t \in Range(getAllBookmarkedTabs) : t.id = r.tab.id})
           found == tab # <<>> /\ hasBookmark(bookmarks, tab[1].url)
       IN  /\ targetTabIdToSelect' = Some(r.tab.id)
           /\ bookmarks' = IF tab = <<>> THEN bookmarks
                           ELSE toggleBookmarkPinList(bookmarks, tab[1].url)
           /\ ev' = Ev("toggleGroupPin")
           /\ UNCHANGED <<liveTabs, metadata, bookmarkGroups, isOpen, query, inputMode,
                          activeCommand, viewMode, isPinnedExpanded, detailTabId,
                          selectedTabIndex, selectedCommandIndex, refVars, timerVars>>
           /\ stale' = StaleDeps(found)

\* TabList handleDropOnGroup: a bookmark card dropped on a group, then App
\* onMoveBookmark and useTabManager moveBookmark
DropOnGroup ==
  /\ RowsClickable
  /\ viewMode = "BOOKMARKS"
  /\ \E r \in Range(renderedRows), g \in Range(bookmarkGroups) :
       LET target == find(getAllBookmarkedTabs,
                          {t \in Range(getAllBookmarkedTabs) : t.id = r.tab.id})
           found == target # <<>> /\ hasBookmark(bookmarks, target[1].url)
       IN  /\ targetTabIdToSelect' = Some(r.tab.id)
           /\ bookmarks' = IF target = <<>> THEN bookmarks
                           ELSE moveBookmarkList(bookmarks, target[1].url, g.id)
           /\ ev' = Ev("moveBookmark")
           /\ UNCHANGED <<liveTabs, metadata, bookmarkGroups, isOpen, query, inputMode,
                          activeCommand, isPinnedExpanded, viewMode, detailTabId,
                          selectedTabIndex, selectedCommandIndex, refVars, timerVars>>
           /\ stale' = StaleDeps(found)

\* the titles typed into the title editor: "d", " ", ""
TitleTexts == {TitleD, Blank, EmptyStr}

\* TabList onRenameTab (TitleItem passes the edited text when it differs)
RowRenameTab ==
  /\ RowsClickable
  /\ \E r \in Range(renderedRows), text \in TitleTexts :
       LET found == \E i \in 1..Len(liveTabs) : liveTabs[i].id = r.tab.id
           renamed == renameTabList(liveTabs, r.tab.id, text)
       IN  /\ text # r.tab.title
           /\ targetTabIdToSelect' = Some(r.tab.id)
           /\ liveTabs' = renamed
           /\ metadata' = IF found
                           THEN updateMetadata(metadata, renamed, urlOfLive(r.tab.id)[1],
                                               "savedTitle", text)
                           ELSE metadata
           /\ timers' = timers \cup {"focus"}
           /\ ev' = Ev("renameTab")
           /\ UNCHANGED <<bookmarks, bookmarkGroups, isOpen, query, inputMode, activeCommand,
                          viewMode, isPinnedExpanded, detailTabId, selectedTabIndex,
                          selectedCommandIndex, refVars, mounted>>
           /\ stale' = StaleDeps(found)

ViewModes == {"LIST", "GROUPS", "BOOKMARKS"}

\* Toolbar onViewModeChange, and the Cmd/Ctrl+1/2/3 shortcuts
SetViewMode ==
  /\ mounted
  /\ stale = {}
  /\ \E mode \in ViewModes :
       /\ mode # viewMode
       /\ viewMode' = mode
       /\ ev' = Ev("viewMode")
  /\ UNCHANGED <<serviceVars, isOpen, query, inputMode, activeCommand, isPinnedExpanded,
                 targetTabIdToSelect, detailTabId, selectedTabIndex, selectedCommandIndex,
                 refVars, timerVars>>
  /\ stale' = StaleDeps(FALSE)

\* TabList onTogglePinnedExpanded (the header of the pinned section)
TogglePinnedExpanded ==
  /\ RowsClickable
  /\ viewMode = "LIST"
  /\ visibleTabs # <<>>
  /\ pinnedTabs # <<>>
  /\ isPinnedExpanded' = ~isPinnedExpanded
  /\ ev' = Ev("togglePinnedExpanded")
  /\ UNCHANGED <<serviceVars, isOpen, query, inputMode, activeCommand, viewMode,
                 targetTabIdToSelect, detailTabId, selectedTabIndex, selectedCommandIndex,
                 refVars, timerVars>>
  /\ stale' = StaleDeps(FALSE)

\* TabList onOpenDetails (a double click on a title)
OpenDetails ==
  /\ RowsClickable
  /\ \E r \in Range(renderedRows) :
       /\ detailTabId' = Some(r.tab.id)
       /\ ev' = Ev("openDetails")
  /\ UNCHANGED <<serviceVars, isOpen, query, inputMode, activeCommand, viewMode,
                 isPinnedExpanded, targetTabIdToSelect, selectedTabIndex,
                 selectedCommandIndex, refVars, timerVars>>
  /\ stale' = StaleDeps(FALSE)

\* TabDetails onTogglePin (the pin button of the detail panel)
DetailTogglePin ==
  /\ mounted
  /\ stale = {}
  /\ isOpen
  /\ detailTab # <<>>
  /\ liveTabs' = togglePinTab(liveTabs, detailTab[1].id)
  /\ ev' = Ev("detailTogglePin")
  /\ UNCHANGED <<metadata, bookmarks, bookmarkGroups, appVars, refVars, timerVars>>
  /\ stale' = StaleDeps(TRUE)

\* TabDetails onClose
DetailClose ==
  /\ mounted
  /\ stale = {}
  /\ isOpen
  /\ detailTab # <<>>
  /\ detailTabId' = None
  /\ timers' = timers \cup {"focus"}
  /\ ev' = Ev("closeDetails")
  /\ UNCHANGED <<serviceVars, isOpen, query, inputMode, activeCommand, viewMode,
                 isPinnedExpanded, targetTabIdToSelect, selectedTabIndex,
                 selectedCommandIndex, refVars, mounted>>
  /\ stale' = StaleDeps(FALSE)

\* ------------------------------------------------------------------------
\* App.tsx (the version with local state): reordering by pinnedAt
\* ------------------------------------------------------------------------
\* prevTabs.filter(t => t.isPinned).sort(by pinnedAt)
pinnedTabsV1(prevTabs) ==
  sort(SelectIn(prevTabs, {t \in Range(prevTabs) : t.isPinned}), "PINNED_AT")

\* handleReorderPinnedTabs: the updater passed to setTabs
handleReorderPinnedTabsV1(prevTabs, fromId, toId) ==
  LET pinned == pinnedTabsV1(prevTabs)
      fromIndex == findIndex(pinned, {t \in Range(pinned) : t.id = fromId})
      toIndex == IF toId = None THEN Len(pinned)
                 ELSE findIndex(pinned, {t \in Range(pinned) : t.id = toId[1]})
  IN  IF fromIndex = -1 \/ toIndex = -1 THEN prevTabs
      ELSE LET item == pinned[fromIndex + 1]
               insertIndex == IF fromIndex < toIndex THEN toIndex - 1 ELSE toIndex
               newPinnedOrder == spliceInsert(spliceRemove(pinned, fromIndex),
                                              insertIndex, item)
               reorderedIds(id) ==
                 findIndex(newPinnedOrder, {t \in Range(newPinnedOrder) : t.id = id})
           IN  [i \in 1..Len(prevTabs) |->
                  IF prevTabs[i].isPinned /\ reorderedIds(prevTabs[i].id) # -1
                  THEN [prevTabs[i] EXCEPT !.pinnedAt = <<reorderedIds(prevTabs[i].id)>>]
                  ELSE prevTabs[i]]

\* the registry of that version holding the pins of liveTabs: the tabs in the order
\* they were opened, each pinned tab stamped with its place among the pinned tabs
tabsV1 ==
  LET pinnedNow == SelectIn(liveTabs, {t \in Range(liveTabs) : t.pinned})
      opened == SelectIn(AllInitialTabs,
                         {t \in Range(AllInitialTabs) :
                            \E i \in 1..Len(liveTabs) : liveTabs[i].id = t.id})
  IN  [i \in 1..Len(opened) |->
         LET place == findIndex(pinnedNow, {t \in Range(pinnedNow) : t.id = opened[i].id})
         IN  [id |-> opened[i].id, isPinned |-> place # -1,
              pinnedAt |-> IF place # -1 THEN <<place + 1>> ELSE <<>>]]

\* ------------------------------------------------------------------------
\* Specifications
\* ------------------------------------------------------------------------
Next ==
  \/ Commit
  \/ RowAddTag \/ RowRemoveTag \/ RowRenameTag
  \/ InputChange \/ PaletteClick \/ KeyEnter \/ RowClick
  \/ RowTogglePin \/ DropPinned \/ KeyAltArrow \/ KeyArrow
  \/ RowToggleBookmark \/ RowRenameTab
  \/ SetViewMode \/ TogglePinnedExpanded \/ OpenDetails \/ DetailTogglePin \/ DetailClose
  \/ ToggleGroupPin \/ DropOnGroup
  \/ KeyBackspace \/ KeyEscape \/ KeyToggleOpen \/ ClearButton

Spec == Init /\ [][Next]_vars

\* the tag operations: the row controls and the MARK command
NextTags ==
  \/ Commit
  \/ RowAddTag \/ RowRemoveTag \/ RowRenameTag
  \/ TypeSlash \/ TypeTag \/ PaletteMark \/ KeyEnter

SpecTags == InitFresh /\ [][NextTags]_vars

\* closing, activating, pinning and reordering live tabs
NextActive ==
  \/ Commit
  \/ RowClick \/ KeyEnter \/ KeyArrow
  \/ TypeSlash \/ PaletteClose
  \/ RowTogglePin \/ DropPinned \/ KeyAltArrow

SpecActive == InitFresh /\ [][NextActive]_vars

\* ------------------------------------------------------------------------
\* Claims
\* ------------------------------------------------------------------------
hasDuplicates(s) == \E i, j \in 1..Len(s) : i # j /\ s[i] = s[j]

\* C1: after any sequence of add-tag, remove-tag, rename-tag and MARK operations
\* the tag list stored for every URL, and shown on every tab, holds no string twice
C1_TagsDuplicateFree ==
  /\ \A u \in DOMAIN metadata : ~hasDuplicates(metadata[u].tags)
  /\ \A i \in 1..Len(tabs) : ~hasDuplicates(tabs[i].tags)

\* a tag was renamed to another tag of the same tab
C1_RenamedOntoExistingTag ==
  /\ ev.op = "renameTag"
  /\ \E i \in 1..Len(tabs) : hasDuplicates(tabs[i].tags)

activeCount == Cardinality({i \in 1..Len(liveTabs) : liveTabs[i].active})

\* C2: whenever a live tab exists, exactly one live tab is active
C2_ExactlyOneActive == liveTabs # <<>> => activeCount = 1

\* the CLOSE command closed the active tab and other tabs remain
C2_ClosedActiveTab == ev.op = "close" /\ liveTabs # <<>> /\ activeCount = 0

\* the ids of the pinned tabs, in the order the pinned section shows them
pinnedIds(ts) ==
  LET p == SelectIn(ts, {t \in Range(ts) : t.pinned}) IN [i \in 1..Len(p) |-> p[i].id]
pinnedIdsV1(ts) ==
  LET p == pinnedTabsV1(ts) IN [i \in 1..Len(p) |-> p[i].id]

without(ids, id) == SelectIn(ids, Range(ids) \ {id})

\* after is before with fromId taken out and put back immediately before toId,
\* or last when toId is END
movedBefore(before, after, fromId, toId) ==
  /\ Range(after) = Range(before) /\ Len(after) = Len(before)
  /\ without(after, fromId) = without(before, fromId)
  /\ LET at1 == findIndex(after, {fromId})
     IN  IF toId = None THEN at1 = Len(after) - 1
         ELSE at1 + 1 = findIndex(after, {toId[1]})

\* C4: reorder(fromId, toId) with fromId and toId distinct pinned tabs, or toId END,
\* keeps the pinned tabs and the relative order of the others, and leaves fromId
\* immediately before toId (last for END); in the service and in the local-state App
C4_ReorderMovesBefore ==
  LET ids == pinnedIds(liveTabs)
  IN  \A fromId \in Range(ids) :
        \A toId \in {None} \cup {Some(id) : id \in Range(ids) \ {fromId}} :
          /\ movedBefore(ids, pinnedIds(reorderPinnedTabs(liveTabs, fromId, toId)),
                         fromId, toId)
          /\ movedBefore(pinnedIdsV1(tabsV1),
                         pinnedIdsV1(handleReorderPinnedTabsV1(tabsV1, fromId, toId)),
                         fromId, toId)

\* a drop has reordered three pinned tabs into an order that pinning alone cannot give
C4_ReorderedThree ==
  /\ ev.op = "drop"
  /\ pinnedIds(liveTabs) = <<3, 1, 2>>

\* pinning and reordering in the LIST view
NextReorder ==
  \/ Commit
  \/ RowTogglePin \/ DropPinned \/ KeyAltArrow \/ KeyArrow

SpecReorder == InitReorder /\ [][NextReorder]_vars

\* the position of the tab with this id in a list, or -1
indexOfId(ts, id) == findIndex(ts, {t \in Range(ts) : t.id = id})

NextFollow ==
  \/ Commit
  \/ RowTogglePin \/ RowToggleBookmark
  \/ SetViewMode \/ TogglePinnedExpanded \/ KeyArrow

SpecFollow == InitFresh /\ [][NextFollow]_vars

\* the URLs bookmarked with no live tab open on them
closedBookmarkUrls(live, bms) ==
  {bms[i].url : i \in {j \in 1..Len(bms) : \A k \in 1..Len(live) : live[k].url # bms[j].url}}

entriesFor(all, url) == SelectIn(all, {t \in Range(all) : t.url = url})

\* every closed bookmark has exactly one entry, inactive, unpinned and bookmarked
ghostEntriesOk(live, meta, bms) ==
  \A u \in closedBookmarkUrls(live, bms) :
    LET es == entriesFor(mergeBookmarked(live, meta, bms), u)
    IN  /\ Len(es) = 1
        /\ ~es[1].isActive /\ ~es[1].isPinned /\ es[1].isBookmarked

\* C5: a bookmarked tab that was closed keeps exactly one entry in the all-bookmarked
\* collection, inactive, unpinned and bookmarked, and the entry's id is the same on
\* every recomputation while the bookmark exists and the tab stays closed
C5_ClosedBookmarkKeepsEntry ==
  [][/\ ghostEntriesOk(liveTabs, metadata, bookmarks)
     /\ ghostEntriesOk(liveTabs', metadata', bookmarks')
     /\ \A u \in closedBookmarkUrls(liveTabs, bookmarks)
                  \cap closedBookmarkUrls(liveTabs', bookmarks') :
          entriesFor(mergeBookmarked(liveTabs', metadata', bookmarks'), u)[1].id
            = entriesFor(mergeBookmarked(liveTabs, metadata, bookmarks), u)[1].id]_vars

\* the CLOSE command has closed a tab bookmarked in this session, and the bookmark
\* of an open tab is listed next to it
C5_BookmarkedThenClosed ==
  /\ ev.op = "close"
  /\ closedBookmarkUrls(liveTabs, bookmarks) # {}
  /\ \E i \in 1..Len(bookmarks) : bookmarks[i].url \notin closedBookmarkUrls(liveTabs, bookmarks)

\* bookmarking tabs, activating them and closing the active one
NextGhost ==
  \/ Commit
  \/ RowToggleBookmark \/ RowClick
  \/ TypeSlash \/ PaletteClose \/ KeyEnter

SpecGhost == InitFresh /\ [][NextGhost]_vars

\* the same steps, started with what storage may hold
SpecStored == Init /\ [][NextGhost]_vars

\* the entries of the all-bookmarked collection that stand for closed tabs
ghostTabs ==
  SelectIn(allBookmarkedTabs,
           {t \in Range(allBookmarkedTabs) : t.url \in closedBookmarkUrls(liveTabs, bookmarks)})

\* C6: the id synthesized for a closed-but-bookmarked tab is strictly negative
C6_GhostIdNegative == \A i \in 1..Len(ghostTabs) : ghostTabs[i].id < 0

\* the CLOSE command has closed a bookmarked tab whose entry now has a positive id
C6_ClosedTabGotPositiveId ==
  /\ ev.op = "close"
  /\ \E i \in 1..Len(ghostTabs) : ghostTabs[i].url = UrlGemini /\ ghostTabs[i].id > 0

idsDistinct(ts) == \A i, j \in 1..Len(ts) : i # j => ts[i].id # ts[j].id

foldCase(c) == IF c \in 65..90 THEN c + 32 ELSE c

\* q occurs in s when case is ignored
occursIgnoringCase(q, s) ==
  \E off \in 0..(Len(s) - Len(q)) : \A k \in 1..Len(q) : foldCase(s[off + k]) = foldCase(q[k])

\* C8: in SEARCH mode a tab of the source collection is in the filtered list iff the
\* query is empty or occurs, ignoring case, in its title, its url or one of its tags
C8_FilterMatchesSubstring ==
  inputMode = "SEARCH" =>
    \A i \in 1..Len(sourceTabs) :
      LET t == sourceTabs[i]
      IN  (t \in Range(filteredTabs)) <=>
            \/ query = EmptyStr
            \/ occursIgnoringCase(query, t.title)
            \/ occursIgnoringCase(query, t.url)
            \/ \E k \in 1..Len(t.tags) : occursIgnoringCase(query, t.tags[k])

\* the query "q" keeps only the tab tagged "q": neither title nor URL holds a q
C8_QueryKeepsTaggedTabOnly ==
  /\ inputMode = "SEARCH" /\ stale = {}
  /\ query = TagLq
  /\ Len(filteredTabs) = 1 /\ Len(sourceTabs) > 1

\* typing into the search box, in the three views
NextFilter ==
  \/ Commit
  \/ TypeSearch \/ SetViewMode \/ RowToggleBookmark

SpecFilter == Init /\ [][NextFilter]_vars

\* C9: in every rendered state the rows, top to bottom, are the visible list, each row
\* drawn with its position in that list, so that the row shown selected is
\* visibleTabs[selectedIndex]
C9_RowsAreVisibleList == stale = {} => renderedRows = rowsOf(visibleTabs, 0)

\* the pinned section is collapsed while pinned and unpinned tabs exist
C9_CollapsedWithPinnedTabs ==
  /\ stale = {}
  /\ viewMode = "LIST" /\ ~isPinnedExpanded
  /\ pinnedTabs # <<>> /\ unpinnedTabs # <<>>

\* C10: a render with the contents of the visible list unchanged, no pending target
\* and the view mode unchanged leaves selectedIndex as it was
C10_RerenderKeepsCursor ==
  [][(/\ stale # {}
      /\ targetTabIdToSelect = None
      /\ prevViewModeRef = viewMode
      /\ prevFilteredTabsRef = visibleTabs)
     => selectedTabIndex' = selectedTabIndex]_vars

\* after the switch to the BOOKMARKS view, which leaves no row selected, a further
\* render of the same cards has put the cursor on the first card
C10_BookmarksCursorReset ==
  /\ viewMode = "BOOKMARKS" /\ prevViewModeRef = "BOOKMARKS"
  /\ ev.op = "viewMode" /\ stale = {}
  /\ visibleTabs # <<>>
  /\ selectedTabIndex = 0

\* C11: once a switch of the view mode with no pending target has been rendered,
\* selectedIndex is -1 and stays so until the user acts again
C11_ViewSwitchUnselects ==
  (stale = {} /\ ev.op = "viewMode") => selectedTabIndex = -1

\* the GROUPS view was switched to with a row selected, and no row is selected now
C11_SwitchedToGroups ==
  /\ stale = {} /\ ev.op = "viewMode"
  /\ viewMode = "GROUPS" /\ visibleTabs # <<>>
  /\ selectedTabIndex = -1

\* C12: a reconciliation pass that runs with a pending target leaves no pending
\* target, found or not; no target is pending between user actions; and a pass without
\* a pending target moves the cursor nowhere but to the first row or to no row
C12_TargetAlwaysCleared ==
  /\ [](stale = {} => targetTabIdToSelect = None)
  /\ [][(stale # {} /\ targetTabIdToSelect # None) => targetTabIdToSelect' = None]_vars
  /\ [][(stale # {} /\ targetTabIdToSelect = None)
         => selectedTabIndex' \in {selectedTabIndex, -1, 0}]_vars

\* a pass ran for a tab that a pin toggle had moved out of the visible list, and
\* no target is pending
C12_UnfoundTargetCleared ==
  /\ ev.op = "togglePin"
  /\ ev.followed # None
  /\ indexOfId(visibleTabs, ev.followed[1]) = -1
  /\ targetTabIdToSelect = None

\* pinning and reordering from the rows, the keyboard and the detail panel
NextTarget ==
  \/ Commit
  \/ RowTogglePin \/ KeyArrow \/ KeyAltArrow
  \/ OpenDetails \/ DetailTogglePin \/ DetailClose

SpecTarget == InitFresh /\ [][NextTarget]_vars

\* the handlers that edit tags, pins, titles or the pinned order
EditOps ==
  {"addTag", "removeTag", "renameTag", "mark", "togglePin", "renameTab", "drop",
   "AltArrowUp", "AltArrowDown", "detailTogglePin"}

\* the merged tabs other than x are the same, in the same order, before and after
onlyTabEdited(x) ==
  SelectIn(tabs, {t \in Range(tabs) : t.id # x}) = SelectIn(tabs', {t \in Range(tabs') : t.id # x})

\* C13: every tag, pin, rename and reorder action that edits a tab sets the pending
\* target to that tab, from whichever control it is triggered
C13_EditsSetTarget ==
  [][(stale = {} /\ ev'.op \in EditOps /\ tabs' # tabs)
     => (targetTabIdToSelect' # None /\ onlyTabEdited(targetTabIdToSelect'[1]))]_vars

\* Alt+ArrowDown has moved the selected pinned tab down and, with no target to follow,
\* the cursor is on another tab
C13_AltArrowLostTab ==
  /\ stale = {} /\ ev.op = "AltArrowDown"
  /\ selectedTabIndex = 0
  /\ Len(pinnedTabs) > 1

ArrowOps == {"ArrowDown", "ArrowUp"}

\* where the claim puts the cursor: one row on, wrapping; from no row, the first
\* row for ArrowDown and the last for ArrowUp
arrowGoal(i, n, key) ==
  IF key = "ArrowDown" THEN (IF i = -1 THEN 0 ELSE (i + 1) % n)
  ELSE (IF i = -1 THEN n - 1 ELSE (i - 1) % n)

\* C14: with a non-empty visible list an arrow key moves selectedIndex one row on,
\* wrapping at both ends (from -1 to the first or the last row), and the render that
\* follows leaves selectedIndex at that row
C14_ArrowsWrapAndStay ==
  /\ [][(/\ stale = {} /\ ev'.op \in ArrowOps
          /\ inputMode # "COMMAND_SELECT"
          /\ visibleTabs # <<>>
          /\ selectedTabIndex \in -1..(Len(visibleTabs) - 1))
         => selectedTabIndex' = arrowGoal(selectedTabIndex, Len(visibleTabs), ev'.op)]_vars
  /\ [][(stale # {} /\ ev.op \in ArrowOps) => selectedTabIndex' = selectedTabIndex]_vars

\* ArrowUp has wrapped from the first row to the last row of a list of several tabs
C14_WrappedToLastRow ==
  /\ stale = {} /\ ev.op = "ArrowUp"
  /\ viewMode = "LIST"
  /\ Len(visibleTabs) > 1
  /\ selectedTabIndex = Len(visibleTabs) - 1

\* C15: a tab that has just been pinned is the last row of the pinned section of the
\* LIST view, whatever its place in the registry: the section is in pinning order
C15_NewPinIsLast ==
  (/\ ev.op = "togglePin" /\ ev.followed # None
   /\ viewMode = "LIST"
   /\ \E i \in 1..Len(pinnedTabs) : pinnedTabs[i].id = ev.followed[1])
  => pinnedTabs[Len(pinnedTabs)].id = ev.followed[1]

\* tab 1 has been pinned after tab 2 and the pinned section shows it before tab 2
C15_LaterPinShownFirst ==
  /\ ev.op = "togglePin" /\ ev.followed = Some(1)
  /\ viewMode = "LIST"
  /\ [i \in 1..Len(pinnedTabs) |-> pinnedTabs[i].id] = <<1, 2>>

\* Date.now() at the two clicks
Clock == {7, 8}

\* App.tsx (the version with local state) handleTogglePin: the updater passed to setTabs
handleTogglePinV1(prevTabs, tabId, now) ==
  [i \in 1..Len(prevTabs) |->
     IF prevTabs[i].id = tabId
     THEN [prevTabs[i] EXCEPT !.isPinned = ~prevTabs[i].isPinned,
                              !.pinnedAt = IF ~prevTabs[i].isPinned THEN <<now>> ELSE <<>>]
     ELSE prevTabs[i]]

pinFlags(ts) == [i \in 1..Len(ts) |-> ts[i].pinned]
isPinnedFlagsV1(ts) == [i \in 1..Len(ts) |-> ts[i].isPinned]

\* C16: toggling the pin of a tab twice gives back the isPinned of every tab, one toggle
\* changes the isPinned of that tab only, and a tab that a toggle leaves unpinned has no
\* pinnedAt; in the service and in the local-state App, and in every pin step taken
C16_PinTwiceRestores ==
  /\ [](\A k \in 1..Len(liveTabs) :
         LET id == liveTabs[k].id
             once == togglePinTab(liveTabs, id)
             twice == togglePinTab(once, id)
         IN  /\ pinFlags(twice) = pinFlags(liveTabs)
             /\ \A j \in 1..Len(liveTabs) :
                  once[j].pinned = (IF j = k THEN ~liveTabs[j].pinned ELSE liveTabs[j].pinned)
             /\ \A now1, now2 \in Clock :
                  LET old == tabsV1
                      p == findIndex(old, {t \in Range(old) : t.id = id}) + 1
                      onceV1 == handleTogglePinV1(old, id, now1)
                      twiceV1 == handleTogglePinV1(onceV1, id, now2)
                  IN  /\ isPinnedFlagsV1(twiceV1) = isPinnedFlagsV1(old)
                      /\ \A j \in 1..Len(old) :
                           onceV1[j].isPinned
                             = (IF j = p THEN ~old[j].isPinned ELSE old[j].isPinned)
                      /\ ~onceV1[p].isPinned => onceV1[p].pinnedAt = <<>>
                      /\ ~twiceV1[p].isPinned => twiceV1[p].pinnedAt = <<>>)
  /\ [][(stale = {} /\ ev'.op \in {"togglePin", "detailTogglePin"})
         => \E k \in 1..Len(liveTabs) :
              /\ Len(liveTabs') = Len(liveTabs)
              /\ \A j \in 1..Len(liveTabs) :
                   /\ liveTabs'[j].id = liveTabs[j].id
                   /\ liveTabs'[j].pinned
                        = (IF j = k THEN ~liveTabs[j].pinned ELSE liveTabs[j].pinned)]_vars

\* tab 1 has been pinned and unpinned again while tab 2 stayed pinned
C16_UnpinnedAgain ==
  /\ ev.op = "togglePin" /\ ev.followed = Some(1)
  /\ \E j \in 1..Len(liveTabs) : liveTabs[j].id = 1 /\ ~liveTabs[j].pinned
  /\ \E j \in 1..Len(liveTabs) : liveTabs[j].id = 2 /\ liveTabs[j].pinned

\* the App with local state: handleToggleBookmark, the updater passed to setTabs
handleToggleBookmarkV2(prevTabs, groups, tabId) ==
  [i \in 1..Len(prevTabs) |->
     IF prevTabs[i].id = tabId
     THEN LET isBookmarked == ~prevTabs[i].isBookmarked
          IN  [prevTabs[i] EXCEPT
                 !.isBookmarked = isBookmarked,
                 !.bookmarkGroupId =
                    IF ~isBookmarked THEN <<>>
                    ELSE IF prevTabs[i].bookmarkGroupId # <<>> THEN prevTabs[i].bookmarkGroupId
                    ELSE IF groups # <<>> THEN <<groups[1].id>> ELSE <<>>]
     ELSE prevTabs[i]]

knownUrls(live, bms) ==
  {live[i].url : i \in 1..Len(live)} \cup {bms[i].url : i \in 1..Len(bms)}
isBookmarkedFlagsV2(ts) == [i \in 1..Len(ts) |-> ts[i].isBookmarked]

\* C17: toggling the bookmark of a URL twice gives back its bookmarked state, and neither
\* toggle changes the bookmarked state of another URL; in the service, in the App with
\* local state, and in every bookmark step taken
C17_BookmarkTwiceRestores ==
  /\ [](LET urls == knownUrls(liveTabs, bookmarks)
        IN  \A url \in urls :
              LET once == toggleBookmark(bookmarks, metadata, liveTabs, url, TitleD)
                  twice == toggleBookmark(once[1], once[2], liveTabs, url, TitleD)
              IN  \A u \in urls :
                    /\ hasBookmark(once[1], u)
                         = (IF u = url THEN ~hasBookmark(bookmarks, u)
                            ELSE hasBookmark(bookmarks, u))
                    /\ hasBookmark(twice[1], u) = hasBookmark(bookmarks, u))
  /\ [](\A k \in 1..Len(tabs) :
          LET onceV2 == handleToggleBookmarkV2(tabs, bookmarkGroups, tabs[k].id)
              twiceV2 == handleToggleBookmarkV2(onceV2, bookmarkGroups, tabs[k].id)
          IN  /\ isBookmarkedFlagsV2(twiceV2) = isBookmarkedFlagsV2(tabs)
              /\ \A j \in 1..Len(tabs) :
                   onceV2[j].isBookmarked
                     = (IF j = k THEN ~tabs[j].isBookmarked ELSE tabs[j].isBookmarked))
  /\ [][(stale = {} /\ ev'.op = "toggleBookmark")
         => LET t == find(tabs, {x \in Range(tabs) : x.id = targetTabIdToSelect'[1]})
            IN  \A u \in knownUrls(liveTabs, bookmarks) \cup knownUrls(liveTabs', bookmarks') :
                  hasBookmark(bookmarks', u)
                    = (IF t # <<>> /\ u = t[1].url THEN ~hasBookmark(bookmarks, u)
                       ELSE hasBookmark(bookmarks, u))]_vars

\* the first tab has been bookmarked and unbookmarked again, another tab stays bookmarked
C17_UnbookmarkedAgain ==
  /\ ev.op = "toggleBookmark" /\ ev.followed = Some(1)
  /\ ~hasBookmark(bookmarks, UrlGemini)
  /\ hasBookmark(bookmarks, UrlReact)

\* bookmarking, pinning bookmarks inside their group and moving them between groups
NextBookmarks ==
  \/ Commit
  \/ RowToggleBookmark \/ ToggleGroupPin \/ DropOnGroup
  \/ SetViewMode

SpecBookmarks == InitFresh /\ [][NextBookmarks]_vars

\* C18: the bookmark store never holds two items with the same URL
C18_OneBookmarkPerUrl ==
  \A i, j \in 1..Len(bookmarks) : bookmarks[i].url = bookmarks[j].url => i = j

\* several bookmarks, one of them moved to the second group and one pinned in its group
C18_MovedAndPinned ==
  /\ ev.op \in {"moveBookmark", "toggleGroupPin"}
  /\ Len(bookmarks) > 1
  /\ \E i \in 1..Len(bookmarks) : bookmarks[i].groupId = GroupWork
  /\ \E i \in 1..Len(bookmarks) : bookmarks[i].pinned

\* C19: a reorder that asks for the place the tab already has leaves the pinned order as
\* it is: reorder(x, END) with x the last pinned tab, reorder(x, y) with y the pinned tab
\* right after x, and reorder(x, x); in the service and in the local-state App
C19_ReorderInPlaceKeepsOrder ==
  LET ids == pinnedIds(liveTabs)
      same(toId, x) ==
        /\ pinnedIds(reorderPinnedTabs(liveTabs, x, toId)) = ids
        /\ pinnedIdsV1(handleReorderPinnedTabsV1(tabsV1, x, toId)) = pinnedIdsV1(tabsV1)
  IN  \A k \in 1..Len(ids) :
        /\ k = Len(ids) => same(None, ids[k])
        /\ k < Len(ids) => same(Some(ids[k + 1]), ids[k])
        /\ same(Some(ids[k]), ids[k])

\* three pinned tabs, where dropping the third on the bottom half of the second asks for
\* reorder(3, 3) and the service answers with another pinned order
C19_SelfReorderMoves ==
  /\ pinnedIds(liveTabs) = <<1, 2, 3>>
  /\ dropTarget(pinnedTabs, 2, "bottom") = Some(3)
  /\ pinnedIds(reorderPinnedTabs(liveTabs, 3, Some(3))) # <<1, 2, 3>>

\* App.tsx (the version with local state), Alt+ArrowUp / Alt+ArrowDown on the pinned
\* tab with this id: the setTabs updaters it queues, applied in order
handleAltArrowV1(prevTabs, id, key) ==
  LET pinned == pinnedTabsV1(prevTabs)
      currentIndexInPinned == findIndex(pinned, {t \in Range(pinned) : t.id = id})
  IN  IF key = "ArrowUp" /\ currentIndexInPinned > 0
      THEN handleReorderPinnedTabsV1(prevTabs, id, Some(pinned[currentIndexInPinned].id))
      ELSE IF key = "ArrowDown" /\ currentIndexInPinned < Len(pinned) - 1
      THEN LET targetTab == pinned[currentIndexInPinned + 2]
               targetAfterNeighbor == at(pinned, currentIndexInPinned + 2)
               first == handleReorderPinnedTabsV1(prevTabs, id, Some(targetTab.id))
           IN  handleReorderPinnedTabsV1(first, id,
                 IF targetAfterNeighbor # <<>> THEN Some(targetAfterNeighbor[1].id) ELSE None)
      ELSE prevTabs

\* ids with the entries at places a and b exchanged
swapped(ids, a, b) ==
  [i \in 1..Len(ids) |-> IF i = a THEN ids[b] ELSE IF i = b THEN ids[a] ELSE ids[i]]

AltArrowOps == {"AltArrowUp", "AltArrowDown"}

\* the pinned order Alt+Arrow leaves when the tab at place k of the pinned section is
\* selected: swapped with its neighbour, or untouched at the boundary
altArrowGoal(ids, k, key) ==
  IF key = "ArrowUp" THEN (IF k > 1 THEN swapped(ids, k, k - 1) ELSE ids)
  ELSE (IF k < Len(ids) THEN swapped(ids, k, k + 1) ELSE ids)

\* pinning, moving the selection, and moving the selected pinned tab with Alt+Arrow
NextSwap ==
  \/ Commit
  \/ RowTogglePin \/ KeyArrow \/ KeyAltArrow

SpecSwap == InitReorder /\ [][NextSwap]_vars

\* C20: in LIST mode Alt+ArrowUp swaps the selected pinned tab with the pinned tab before
\* it and Alt+ArrowDown with the one after it, the others keeping their order; at a
\* boundary the order stays; the handler acts only in LIST mode on a selected pinned tab
C20_AltArrowSwaps ==
  /\ [](LET ids == pinnedIds(liveTabs)
            pinned == pinnedTabs
            old == tabsV1
            idsV1 == pinnedIdsV1(old)
        IN  \A k \in 1..Len(ids), key \in ArrowOps :
              LET to == altArrowTarget(pinned, pinned[k], key)
                  after == IF to = <<>> THEN liveTabs
                           ELSE reorderPinnedTabs(liveTabs, ids[k], to[1])
              IN  /\ pinnedIds(after) = altArrowGoal(ids, k, key)
                  /\ pinnedIdsV1(handleAltArrowV1(old, idsV1[k], key))
                       = altArrowGoal(idsV1, k, key))
  /\ [][(stale = {} /\ ev'.op \in AltArrowOps)
         => /\ viewMode = "LIST" /\ selectedTabIndex # -1
            /\ LET currentTab == at(visibleTabs, selectedTabIndex)
                   ids == pinnedIds(liveTabs)
               IN  /\ currentTab # <<>> /\ currentTab[1].isPinned
                   /\ LET k == findIndex(ids, {currentTab[1].id}) + 1
                      IN  pinnedIds(liveTabs')
                            = altArrowGoal(ids, k, IF ev'.op = "AltArrowUp" THEN "ArrowUp"
                                                   ELSE "ArrowDown")]_vars
  /\ [][(stale = {} /\ (viewMode # "LIST" \/ selectedTabIndex = -1
                        \/ at(visibleTabs, selectedTabIndex) = <<>>
                        \/ ~at(visibleTabs, selectedTabIndex)[1].isPinned))
         => ev'.op \notin AltArrowOps]_vars

\* Alt+ArrowDown has moved the first of three pinned tabs behind the second
C20_MovedDownOne ==
  /\ ev.op = "AltArrowDown"
  /\ pinnedIds(liveTabs) = <<2, 1, 3>>

\* the search box and the command mode without Enter: typing, the palette, Backspace,
\* Escape, the clear button, the detail view and the hotkey that opens and closes the panel
NextCommand ==
  \/ Commit
  \/ InputChange \/ PaletteClick
  \/ KeyBackspace \/ KeyEscape \/ KeyToggleOpen \/ ClearButton
  \/ OpenDetails

SpecCommand == InitFresh /\ [][NextCommand]_vars

\* the events that edit the text of the search box
QueryEditOps == {"input", "Backspace", "clear"}

\* C21: an edit of the query moves the input mode from SEARCH to COMMAND_SELECT exactly
\* when the query becomes "/" in SEARCH, from COMMAND_SELECT to SEARCH exactly when the
\* query becomes empty, and leaves it alone otherwise ("/" typed in COMMAND_ACTIVE too)
C21_ModeFollowsQueryEdits ==
  [][(stale = {} /\ ev'.op \in QueryEditOps /\ query' # query)
     => inputMode' = (IF inputMode = "SEARCH" /\ query' = Slash THEN "COMMAND_SELECT"
                      ELSE IF inputMode = "COMMAND_SELECT" /\ query' = EmptyStr THEN "SEARCH"
                      ELSE inputMode)]_vars

\* "/" has been typed at the prompt of an active command, which stays active
C21_SlashAtCommandPrompt ==
  /\ ev.op = "input"
  /\ inputMode = "COMMAND_ACTIVE"
  /\ query = Slash

\* picking a command: typing at the palette, the arrows, Enter, clicks on palette
\* entries and on rows
NextPalette ==
  \/ Commit
  \/ TypePalette \/ KeyArrow \/ KeyEnter \/ PaletteClick \/ RowClick

SpecPalette == InitFresh /\ [][NextPalette]_vars

\* C22: Enter in COMMAND_SELECT with entry c highlighted and a query other than
\* "/" + c.trigger (ignoring case) completes the query to "/" + c.trigger and stays in
\* COMMAND_SELECT with no active command, where c is highlighted with its trigger fully
\* typed; Enter on a fully typed trigger, and a click on c, give COMMAND_ACTIVE with
\* activeCommand = c and an empty query
C22_EnterCompletesThenConfirms ==
  /\ [][(stale = {} /\ ev'.op = "enterSelect")
         => LET c == at(filteredCommands, selectedCommandIndex)
            IN  /\ inputMode = "COMMAND_SELECT" /\ c # <<>>
                /\ IF toLowerCase(query) # toLowerCase(Slash \o c[1].trigger)
                   THEN /\ query' = Slash \o c[1].trigger
                        /\ inputMode' = "COMMAND_SELECT"
                        /\ activeCommand' = "none"
                   ELSE /\ query' = EmptyStr
                        /\ inputMode' = "COMMAND_ACTIVE"
                        /\ activeCommand' = c[1].id]_vars
  /\ []((stale = {} /\ ev.op = "enterSelect" /\ inputMode = "COMMAND_SELECT")
        => LET c == at(filteredCommands, selectedCommandIndex)
           IN  c # <<>> /\ query = Slash \o c[1].trigger)
  /\ [][(stale = {} /\ ev'.op = "palette")
         => /\ inputMode = "COMMAND_SELECT"
            /\ inputMode' = "COMMAND_ACTIVE"
            /\ query' = EmptyStr
            /\ \E c \in Range(filteredCommands) : activeCommand' = c.id]_vars

\* Enter has completed the query to a trigger while a command picked earlier is still set
C22_CompletedWithCommandSet ==
  /\ ev.op = "enterSelect"
  /\ inputMode = "COMMAND_SELECT"
  /\ activeCommand # "none"

\* running commands: the palette, the prompt of the active command, Enter, clicks on
\* rows and the view switches
NextMark ==
  \/ Commit
  \/ TypeSlash \/ TypeTag \/ PaletteClick \/ KeyEnter
  \/ RowClick \/ SetViewMode

SpecMark == InitFresh /\ [][NextMark]_vars

tagsOfUrl(meta, url) == getMetadata(meta, url).tags

\* C23: Enter at the MARK prompt with a typed text q that is not blank leaves trim(q)
\* among the tags of the active live tab (appended when it was not there), changes the
\* tags of no other URL, and leaves inputMode SEARCH, an empty query and no active command
C23_MarkTagsActiveTab ==
  [][(stale = {} /\ ev'.op = "mark" /\ trim(query) # EmptyStr)
     => /\ inputMode = "COMMAND_ACTIVE" /\ activeCommand = "mark"
        /\ inputMode' = "SEARCH" /\ query' = EmptyStr /\ activeCommand' = "none"
        /\ LET q == trim(query)
               activeNow == {i \in 1..Len(liveTabs) : liveTabs[i].active}
           IN  /\ \A i \in activeNow :
                    LET old == tagsOfUrl(metadata, liveTabs[i].url)
                    IN  tagsOfUrl(metadata', liveTabs[i].url)
                          = (IF \E k \in 1..Len(old) : old[k] = q THEN old ELSE Append(old, q))
               /\ \A u \in (DOMAIN metadata) \cup (DOMAIN metadata') :
                    (\A i \in activeNow : liveTabs[i].url # u)
                      => tagsOfUrl(metadata', u) = tagsOfUrl(metadata, u)
               /\ liveTabs' = liveTabs]_vars

\* MARK has tagged the second tab, which a click had made the active one
C23_MarkedSecondTab ==
  /\ ev.op = "mark" /\ ev.followed = Some(2)
  /\ tagsOfUrl(metadata, UrlReact) # tagsOfUrl(startupMetadata, UrlReact)

BackspaceOps == {"exitCommand", "Backspace"}

\* C25 as stated: Backspace at an empty command prompt goes to SEARCH and clears the
\* command without running it or touching a tab; every other Backspace changes neither
\* the input mode nor the active command.
C25_BackspaceOnlyLeavesPrompt ==
  [][(stale = {} /\ ev'.op \in BackspaceOps)
       => /\ UNCHANGED serviceVars
          /\ IF inputMode = "COMMAND_ACTIVE" /\ query = EmptyStr
             THEN inputMode' = "SEARCH" /\ activeCommand' = "none"
             ELSE inputMode' = inputMode /\ activeCommand' = activeCommand]_vars

\* C25 amended: Backspace at an empty command prompt goes to SEARCH and clears the
\* command without running it or touching a tab; every other Backspace leaves the active
\* command and the stores alone and changes the input mode only as the edited query
\* does: SEARCH becomes COMMAND_SELECT when "/" is what remains, COMMAND_SELECT becomes
\* SEARCH when nothing remains.
C25_BackspaceLeavesPromptOrEdits ==
  [][(stale = {} /\ ev'.op \in BackspaceOps)
       => /\ UNCHANGED serviceVars
          /\ IF inputMode = "COMMAND_ACTIVE" /\ query = EmptyStr
             THEN inputMode' = "SEARCH" /\ activeCommand' = "none" /\ query' = query
             ELSE /\ activeCommand' = activeCommand
                  /\ inputMode' = (IF inputMode = "SEARCH" /\ query' = Slash
                                   THEN "COMMAND_SELECT"
                                   ELSE IF inputMode = "COMMAND_SELECT" /\ query' = EmptyStr
                                   THEN "SEARCH"
                                   ELSE inputMode)]_vars

\* Backspace at the empty prompt left the command without running it
C25_LeftPrompt ==
  /\ ev.op = "exitCommand"
  /\ inputMode = "SEARCH" /\ activeCommand = "none"
  /\ liveTabs = startupLiveTabs /\ metadata = startupMetadata

\* what Escape may touch
escapeVars == <<detailTabId, inputMode, activeCommand, query, isOpen>>

C27_ReopenResets ==
  [][(~isOpen /\ isOpen')
       => /\ ev'.op = "toggleOpen"
          /\ inputMode' = "SEARCH" /\ query' = EmptyStr
          /\ activeCommand' = "none" /\ detailTabId' = None]_vars

\* the hotkey reopened a panel that had been closed at a command prompt with text typed
C27_ReopenedFromPrompt ==
  /\ ev.op = "toggleOpen"
  /\ isOpen
  /\ {"query", "inputMode", "activeCommand"} \subseteq stale

\* the ids of the tabs on the rendered rows, top to bottom
renderedIds == [i \in 1..Len(renderedRows) |-> renderedRows[i].tab.id]

\* C28: at the MARK prompt, in every view mode, the rendered list is exactly the one
\* active live tab, the tab that Enter will tag.
C28_MarkShowsActiveTab ==
  (stale = {} /\ isOpen /\ inputMode = "COMMAND_ACTIVE" /\ activeCommand = "mark")
    => /\ activeLiveTab # <<>>
       /\ renderedIds = <<activeLiveTab[1].id>>

\* the MARK prompt in the BOOKMARKS view: a live tab is active and no row is rendered
C28_MarkPromptShowsNothing ==
  /\ stale = {} /\ isOpen
  /\ inputMode = "COMMAND_ACTIVE" /\ activeCommand = "mark"
  /\ viewMode = "BOOKMARKS"
  /\ activeLiveTab # <<>>
  /\ renderedRows = <<>>

\* the ids of a list of tabs, in order
idsIn(ts) == [i \in 1..Len(ts) |-> ts[i].id]

\* the LIST of the two local-state versions with an empty query: App.tsx shows
\* filteredTabs; the version with view modes shows pinnedTabs then unpinnedTabs
displayedV1(ts, engine) == sortWith(engine, ts, "LIST_V1")
displayedV2(ts, engine) ==
  LET filtered == sortWith(engine, ts, "LIST_V2")
  IN  SelectIn(filtered, {t \in Range(filtered) : t.isPinned})
        \o SelectIn(filtered, {t \in Range(filtered) : ~t.isPinned})

\* pinned tabs by ascending pinnedAt, then the unpinned tabs in registry order
pinnedThenUnpinned(ts) ==
  pinnedTabsV1(ts) \o SelectIn(ts, {t \in Range(ts) : ~t.isPinned})

\* C29: the LIST is all pinned tabs, then all unpinned tabs; the pinned tabs are in
\* ascending pinnedAt order wherever pinned and unpinned tabs stand in the registry, and
\* the unpinned tabs keep their registry order. In the versions that keep pinnedAt, for
\* either way the sort may run; in the current version, with the expanded list being
\* the pinned then the unpinned tabs of the registry, and the tab pinned last, which
\* has the greatest pinnedAt, closing the pinned section.
C29_ListPinnedByStampThenRest ==
  /\ \A engine \in SortEngines :
       /\ displayedV1(tabsV1, engine) = pinnedThenUnpinned(tabsV1)
       /\ displayedV2(tabsV1, engine) = pinnedThenUnpinned(tabsV1)
  /\ (viewMode = "LIST" /\ isPinnedExpanded /\ query = EmptyStr /\ inputMode = "SEARCH")
       => /\ idsIn(visibleTabs) = idsIn(SelectIn(tabs, {t \in Range(tabs) : t.isPinned}))
                                     \o idsIn(SelectIn(tabs, {t \in Range(tabs) : ~t.isPinned}))
          /\ (/\ ev.op = "togglePin" /\ ev.followed # None
              /\ \E i \in 1..Len(pinnedTabs) : pinnedTabs[i].id = ev.followed[1])
               => pinnedTabs[Len(pinnedTabs)].id = ev.followed[1]

\* an unpinned tab stands between two pinned tabs of which the later one has the
\* smaller pinnedAt, and the engine leaves the three as they stand
C29_InterleavedKeptAsIs ==
  /\ Len(tabsV1) = 3
  /\ tabsV1[1].isPinned /\ ~tabsV1[2].isPinned /\ tabsV1[3].isPinned
  /\ stampV1(tabsV1[3]) < stampV1(tabsV1[1])
  /\ sortV8(tabsV1, "LIST_V2") = tabsV1

\* adding tags, renaming tabs, and the MARK command
NextEdit ==
  \/ Commit
  \/ RowAddTag \/ RowRenameTab
  \/ TypeSlash \/ TypeTag \/ PaletteMark \/ KeyEnter

SpecEdit == InitFresh /\ [][NextEdit]_vars

isBlank(text) == trim(text) = EmptyStr

\* C30: an empty or whitespace-only tag or title changes nothing: no tag list ever
\* holds a blank tag, no live tab ever has a blank title, and Enter at the MARK prompt
\* with a blank text leaves tabs, metadata, bookmarks and groups as they are.
C30_BlankInputsChangeNothing ==
  /\ [](/\ \A u \in DOMAIN metadata :
             \A i \in 1..Len(metadata[u].tags) : ~isBlank(metadata[u].tags[i])
        /\ \A i \in 1..Len(liveTabs) : ~isBlank(liveTabs[i].title))
  /\ [][(stale = {} /\ ev'.op = "mark" /\ isBlank(query)) => UNCHANGED serviceVars]_vars

\* the title editor was left empty and the tab now has no title
C30_TitleEmptied ==
  /\ ev.op = "renameTab"
  /\ \E i \in 1..Len(liveTabs) : liveTabs[i].title = EmptyStr

\* App.tsx (the version with local state) handleRenameTag: the tags the updater gives
\* the tab whose tag is renamed
handleRenameTagV1(tags, oldTag, newTag) ==
  LET trimmedNewTag == trim(newTag)
  IN  IF trimmedNewTag = oldTag THEN tags
      ELSE IF trimmedNewTag = EmptyStr THEN removeTagList(tags, oldTag)
      ELSE IF trimmedNewTag \in Range(tags) THEN removeTagList(tags, oldTag)
      ELSE renameTagList(tags, oldTag, trimmedNewTag)

\* C31: renaming tag a to another tag b that the tab already has removes a and keeps
\* the existing b: the list afterwards is the old list without a, b is in it once and
\* every other tag is where it was; in the service and in the local-state App.
C31_RenameOntoExistingMerges ==
  \A u \in DOMAIN metadata :
    LET tags == metadata[u].tags
    IN  \A a, b \in Range(tags) :
          a # b =>
            /\ getMetadata(renameTag(metadata, liveTabs, u, a, b), u).tags
                 = SelectIn(tags, Range(tags) \ {a})
            /\ handleRenameTagV1(tags, a, b) = SelectIn(tags, Range(tags) \ {a})

\* a tab carries two different tags, so one can be renamed onto the other
C31_TwoTagsToMerge ==
  \E u \in DOMAIN metadata :
    /\ Len(metadata[u].tags) = 2
    /\ metadata[u].tags[1] # metadata[u].tags[2]
    /\ hasDuplicates(getMetadata(renameTag(metadata, liveTabs, u, metadata[u].tags[1],
                                            metadata[u].tags[2]), u).tags)

\* a group id that no bookmark group has: "gone"
GroupGone == <<103, 111, 110, 101>>

\* localStorage holds two bookmarks, one of an open page and one of a closed page,
\* each filed under the default group or under a group that is not stored
InitStoredGroups ==
  /\ liveTabs = startupLiveTabs
  /\ \E g1, g2 \in {GroupDefault, GroupGone} :
       bookmarks = << [url |-> UrlGemini, groupId |-> g1, pinned |-> FALSE],
                      [url |-> UrlStored, groupId |-> g2, pinned |-> FALSE] >>
  /\ metadata = [u \in (DOMAIN startupMetadata) \cup {UrlStored} |->
                   IF u = UrlStored
                   THEN [tags |-> <<>>, note |-> EmptyStr, savedTitle |-> TitleD]
                   ELSE startupMetadata[u]]
  /\ bookmarkGroups = INITIAL_BOOKMARK_GROUPS
  /\ InitApp

\* the BOOKMARKS view over stored bookmarks: switching views, moving the cursor,
\* dropping a card on a group
NextBuckets ==
  \/ Commit
  \/ SetViewMode \/ KeyArrow \/ DropOnGroup

SpecBuckets == InitStoredGroups /\ [][NextBuckets]_vars

\* C32: in the BOOKMARKS view every tab of the visible list, the list the selection
\* cursor walks, is rendered as a card in some bucket, also when its groupId is the id
\* of no bookmark group.
C32_EveryBookmarkRendered ==
  viewMode = "BOOKMARKS"
    => \A i \in 1..Len(visibleTabs) :
         \E j \in 1..Len(renderedRows) : renderedRows[j].tab.id = visibleTabs[i].id

\* the cursor stands on a bookmark of an unknown group, and no card is drawn for it
C32_CursorOnUnrenderedBookmark ==
  /\ viewMode = "BOOKMARKS" /\ stale = {}
  /\ ev.op \in ArrowOps
  /\ at(visibleTabs, selectedTabIndex) # <<>>
  /\ \A j \in 1..Len(renderedRows) :
       renderedRows[j].tab.id # at(visibleTabs, selectedTabIndex)[1].id

\* ------------------------------------------------------------------------
\* Timers and teardown
\* ------------------------------------------------------------------------
TimerNames == {"highlight", "focus"}

\* a setTimeout callback runs: () => setHighlightedTabId(null) or
\* () => inputRef.current?.focus(). The window runs it whether or not the
\* component that scheduled it is still mounted; while it is mounted the
\* pending render comes first
TimerFires ==
  /\ mounted => stale = {}
  /\ \E t \in timers : timers' = timers \ {t}
  /\ ev' = Ev("timer")
  /\ UNCHANGED <<serviceVars, appVars, refVars, mounted, stale>>

\* React unmounts App: the effect cleanups run (removeEventListener,
\* cancelAnimationFrame); none of them calls clearTimeout, and no setTimeout
\* handle was kept
Unmount ==
  /\ mounted
  /\ mounted' = FALSE
  /\ ev' = Ev("unmount")
  /\ UNCHANGED <<serviceVars, appVars, refVars, timers, stale>>

NextTimers ==
  \/ Commit
  \/ TypeSlash
  \/ TypeTag
  \/ PaletteMark
  \/ KeyEnter
  \/ KeyToggleOpen
  \/ OpenDetails
  \/ DetailClose
  \/ TimerFires
  \/ Unmount

SpecTimers == InitFresh /\ [][NextTimers]_vars

\* C33: once the panel component is torn down no timer it scheduled is left
\* pending (the highlight auto-clear after MARK, the deferred focus), and no
\* timer callback runs after the teardown
C33_TeardownCancelsTimers ==
  ~mounted => (timers = {} /\ ev.op # "timer")

\* both timers were pending at the teardown and a callback has run after it
C33_CallbackAfterTeardown ==
  /\ ~mounted
  /\ ev.op = "timer"
  /\ timers # {}

\* ------------------------------------------------------------------------
\* The unbookmark button of the BOOKMARKS view
\* ------------------------------------------------------------------------
NextUnbookmark ==
  \/ Commit
  \/ RowToggleBookmark \/ SetViewMode
  \/ TypeSlash \/ PaletteClose \/ KeyEnter

SpecUnbookmark == InitFresh /\ [][NextUnbookmark]_vars

\* the URL of the row the last handler was called with
urlOfTarget(target) ==
  LET t == find(allBookmarkedTabs, {x \in Range(allBookmarkedTabs) : x.id = target[1]})
  IN  IF target = <<>> \/ t = <<>> THEN <<>> ELSE <<t[1].url>>

\* C34: in the BOOKMARKS view the unbookmark button of a row removes that row's
\* BookmarkItem, whether the row is backed by a live tab or is the ghost of a
\* closed one.
C34_UnbookmarkRemovesRow ==
  [][(stale = {} /\ viewMode = "BOOKMARKS" /\ ev'.op = "toggleBookmark")
       => \A i \in 1..Len(bookmarks') :
            <<bookmarks'[i].url>> # urlOfTarget(targetTabIdToSelect')]_vars

\* the unbookmark button of a ghost row was pressed and its bookmark is still there
C34_GhostStillBookmarked ==
  /\ viewMode = "BOOKMARKS" /\ ev.op = "toggleBookmark" /\ stale # {}
  /\ targetTabIdToSelect # None
  /\ \A k \in 1..Len(liveTabs) : liveTabs[k].id # targetTabIdToSelect[1]
  /\ \E i \in 1..Len(bookmarks) : <<bookmarks[i].url>> = urlOfTarget(targetTabIdToSelect)

\* ------------------------------------------------------------------------
\* reorder called with ids that are not pinned tabs
\* ------------------------------------------------------------------------
\* an id no tab has: one past the ids of the initial tabs
NoSuchId == Len(AllInitialTabs) + 1

\* the ids reorder may be called with, and the targets: END or an id
ReorderIds == {liveTabs[i].id : i \in 1..Len(liveTabs)} \cup {NoSuchId}
ReorderTargets == {None} \cup {Some(id) : id \in ReorderIds}

isPinnedId(id) == \E i \in 1..Len(liveTabs) : liveTabs[i].id = id /\ liveTabs[i].pinned

\* C35: reorder(fromId, toId) leaves the order and the pinned state of all live tabs
\* as they are when fromId is not a pinned tab, or when toId is neither END nor the id
\* of a pinned tab; in the service and in the local-state App
C35_BadReorderChangesNothing ==
  \A fromId \in ReorderIds, toId \in ReorderTargets :
    (~isPinnedId(fromId) \/ (toId # None /\ ~isPinnedId(toId[1])))
      => /\ reorderPinnedTabs(liveTabs, fromId, toId) = liveTabs
         /\ handleReorderPinnedTabsV1(tabsV1, fromId, toId) = tabsV1

\* tab 1 is pinned and tab 2 is not: reorder(2, END) moves tab 2 in the service's
\* array, and reorder(1, NoSuchId) moves the pinned tab 1
C35_UnpinnedTabMoved ==
  /\ isPinnedId(1) /\ ~isPinnedId(2)
  /\ ev.op = "togglePin"
  /\ reorderPinnedTabs(liveTabs, 2, None) # liveTabs
  /\ reorderPinnedTabs(liveTabs, 1, Some(NoSuchId)) # liveTabs

\* ------------------------------------------------------------------------
\* The range of the selection cursor
\* ------------------------------------------------------------------------
\* row actions that can take their row out of view, the view switch, the arrow
\* keys and the search box
NextRange ==
  \/ Commit
  \/ RowTogglePin
  \/ SetViewMode \/ TogglePinnedExpanded \/ KeyArrow
  \/ TypeSearch

SpecRange == InitFresh /\ [][NextRange]_vars

\* the cursor is past the end of a visible list that is not empty
PastEnd == visibleTabs # <<>> /\ selectedTabIndex >= Len(visibleTabs)

\* the pending target is not in the visible list
targetLost ==
  targetTabIdToSelect # None /\ indexOfId(visibleTabs, targetTabIdToSelect[1]) = -1

\* C36: once a change has been rendered, selectedIndex is at least -1 and less than
\* the length of the visible list whenever that list is not empty, also after a
\* mutation or a query change took the selected or targeted tab out of view.
C36_CursorInRange ==
  (stale = {} /\ visibleTabs # <<>>)
    => (selectedTabIndex >= -1 /\ selectedTabIndex < Len(visibleTabs))

\* a row action has taken its own row out of the list and the cursor is left past
\* the end of what remains
C36_CursorPastEnd ==
  /\ stale = {}
  /\ visibleTabs # <<>>
  /\ selectedTabIndex >= Len(visibleTabs)
  /\ ev.op = "togglePin"

\* C36 as it holds: selectedIndex is never below -1; an arrow key, and a
\* reconciliation pass that finds its pending target, or that has none and sees a
\* changed list or view mode, leave it less than the length of the visible list they
\* ran on when that list is not empty; a pass whose pending target has left the view
\* leaves selectedIndex as it was.
C36_CursorInRangeUnlessTargetLost ==
  /\ [](selectedTabIndex >= -1)
  /\ [][(stale = {} /\ ev'.op \in ArrowOps /\ visibleTabs # <<>>)
         => selectedTabIndex' < Len(visibleTabs)]_vars
  /\ [][(stale # {} /\ targetTabIdToSelect # None /\ ~targetLost /\ visibleTabs # <<>>)
         => selectedTabIndex' < Len(visibleTabs)]_vars
  /\ [][(/\ stale # {} /\ targetTabIdToSelect = None /\ visibleTabs # <<>>
         /\ (listChanged \/ prevViewModeRef # viewMode))
         => selectedTabIndex' < Len(visibleTabs)]_vars
  /\ [][(stale # {} /\ targetLost)
         => (selectedTabIndex' = selectedTabIndex /\ targetTabIdToSelect' = None)]_vars

\* a search has shortened the list under a cursor that stood on the second row, and
\* the pass has put the cursor back on the first row
C36_SearchResetCursor ==
  /\ stale = {} /\ ev.op = "input"
  /\ query # EmptyStr
  /\ Len(visibleTabs) = 1 /\ Len(tabs) > 1
  /\ selectedTabIndex = 0

\* ------------------------------------------------------------------------
\* The active command and the input mode
\* ------------------------------------------------------------------------
\* C37: a command is active exactly when the input mode is COMMAND_ACTIVE, after any
\* sequence of key presses, query edits, palette clicks and tab-row clicks.
C37_ActiveCommandIffCommandActive ==
  (activeCommand # "none") <=> (inputMode = "COMMAND_ACTIVE")

\* a row was clicked at the prompt of a command: the click went back to SEARCH and
\* left the command set
C37_SearchWithCommandSet ==
  /\ ev.op = "activate"
  /\ inputMode = "SEARCH"
  /\ activeCommand # "none"
  /\ stale = {}

\* ------------------------------------------------------------------------
\* The text of the search box while the palette is open
\* ------------------------------------------------------------------------
\* C38: whenever the input mode is COMMAND_SELECT the query is not empty and begins
\* with "/", for every sequence of edits of the input text.
C38_PaletteQueryHasSlash ==
  inputMode = "COMMAND_SELECT" => (query # EmptyStr /\ startsWith(query, Slash))

\* the text "/" was replaced by "q" while the palette was open: the palette stays
\* open on a query without the slash and lists every command
C38_PaletteOnPlainText ==
  /\ inputMode = "COMMAND_SELECT"
  /\ ev.op = "input"
  /\ query = TagLq
  /\ filteredCommands = AVAILABLE_COMMANDS
  /\ stale = {}

\* ------------------------------------------------------------------------
\* Keys pressed while the panel is closed
\* ------------------------------------------------------------------------
\* the window's key handler with the panel open or closed, and the clicks that lead
\* to a pinned row and to a command prompt
NextClosed ==
  \/ Commit
  \/ KeyToggleOpen \/ KeyEnter \/ KeyArrow \/ KeyAltArrow
  \/ KeyEscape \/ KeyBackspace \/ SetViewMode
  \/ RowTogglePin \/ TypeSlash \/ PaletteClick

SpecClosed == InitFresh /\ [][NextClosed]_vars

\* C39: while the panel is closed the only key that changes any state is the toggle
\* hotkey: Enter, the arrow keys, Escape, Backspace and the view-switch hotkeys
\* neither activate or close a tab, nor reorder pinned tabs, nor change selectedIndex,
\* inputMode or viewMode.
C39_ClosedPanelIgnoresKeys ==
  [][(stale = {} /\ ~isOpen /\ ev'.op # "toggleOpen")
       => UNCHANGED <<liveTabs, selectedTabIndex, inputMode, viewMode>>]_vars

\* Enter was pressed with the panel closed and made another tab the active one
C39_ActivatedWhileClosed ==
  /\ ~isOpen
  /\ ev.op = "activate"
  /\ liveTabs # startupLiveTabs
  /\ \A i \in 1..Len(liveTabs) : ~liveTabs[i].pinned

\* ------------------------------------------------------------------------
\* Escape pressed until the panel closes
\* ------------------------------------------------------------------------
\* the layers an open panel has to unwind: the detail view, the command prompt or
\* the typed query, and the panel itself; 0 for a closed panel, at most 3
escapesLeft ==
  IF ~isOpen THEN 0
  ELSE 1 + (IF detailTabId # None THEN 1 ELSE 0)
         + (IF inputMode = "COMMAND_ACTIVE" \/ query # EmptyStr THEN 1 ELSE 0)

====
